---- MODULE Spec2Model ----
(***************************************************************************)
(* A model of the scraping engine (backend/scraping): the page collector   *)
(* with its degradation ladder, the HTTP fallback fetcher, the prompt      *)
(* planner, the refiner and the engine's page loop.                        *)
(*                                                                         *)
(* Optional values of the Python code are modelled as sequences of length  *)
(* at most one: <<>> is None and <<v>> is the value v.                     *)
(***************************************************************************)
EXTENDS Integers, Sequences, FiniteSets, TLC

None == <<>>

Some(v) == <<v>>

Range(s) == {s[i] : i \in 1..Len(s)}

Front(s) == SubSeq(s, 1, Len(s) - 1)

Last(s) == s[Len(s)]

Max2(a, b) == IF a >= b THEN a ELSE b

Min2(a, b) == IF a <= b THEN a ELSE b

\* All sequences over S of length at most n.
SeqsUpTo(S, n) == UNION {[1..k -> S] : k \in 0..n}

(***************************************************************************)
(* Bounds of the model.                                                    *)
(***************************************************************************)
\* Longest URL list handed to a fetch_all call.
MaxUrls == 3

\* URL names the fetchers are given.
FetchUrls == {"u1", "u2", "u3"}

\* str(exc) of an exception caught while fetching: it may be empty.
ExcMsgs == {"", "boom"}

(***************************************************************************)
(* types.py: PageContent                                                   *)
(***************************************************************************)
PageContent(url, final_url, status_code, html, error) ==
    [url |-> url, final_url |-> final_url, status_code |-> status_code,
     html |-> html, error |-> error]

\* `not self.error`: the error is None or the empty string.
ErrorFalsy(error) == error = None \/ error = Some("")

\* A success test that looks at the error only.
success_without_html(page) == ErrorFalsy(page.error)

\* PageContent.success: not self.error and bool(self.html)
success(page) == ErrorFalsy(page.error) /\ page.html # ""

(***************************************************************************)
(* fetcher.py: values flowing through asyncio.gather(return_exceptions).   *)
(* A task's value is a returned PageContent or a raised exception.         *)
(***************************************************************************)
Returned(page) == [tag |-> "page", val |-> page]

Raised(msg) == [tag |-> "exc", val |-> msg]

\* A test that takes no result for an exception.
never_exception(result) == FALSE

IsException(result) == result.tag = "exc"

\* list(dict.fromkeys(urls)): distinct elements, first occurrence kept.
RECURSIVE dedupAll(_)
dedupAll(s) ==
    IF s = <<>> THEN <<>>
    ELSE LET r == dedupAll(Front(s))
         IN  IF Last(s) \in Range(r) THEN r ELSE Append(r, Last(s))

dedup_fromkeys(s) == dedupAll(s)

(***************************************************************************)
(* fetcher.py: _HttpFallbackFetcher._fetch_single.  `env` is what the      *)
(* request did: a response (status, body) or a transport exception.        *)
(***************************************************************************)
HttpOk(body) == [kind |-> "response", status |-> 200, reason |-> "OK", body |-> body, msg |-> ""]

HttpStatusError == [kind |-> "response", status |-> 404, reason |-> "Not Found", body |-> "<err>", msg |-> ""]

HttpTransportError(msg) == [kind |-> "exception", status |-> 0, reason |-> "", body |-> "", msg |-> msg]

HttpEnvs == {HttpOk("<html>"), HttpStatusError} \cup {HttpTransportError(m) : m \in ExcMsgs}

\* response.raise_for_status() raises for 4xx and 5xx.
IsErrorStatus(status) == status >= 400

_fetch_single(url, env) ==
    IF env.kind = "exception"
    THEN \* except Exception: error=str(exc)
         Returned(PageContent(url, url, None, "", Some(env.msg)))
    ELSE IF IsErrorStatus(env.status)
    THEN \* except httpx.HTTPStatusError: error=f"HTTP {status}: {reason}"
         Returned(PageContent(url, url, Some(env.status), env.body,
                              Some("HTTP " \o ToString(env.status) \o ": " \o env.reason)))
    ELSE Returned(PageContent(url, url, Some(env.status), env.body, None))

\* The loop after gather in _HttpFallbackFetcher.fetch_all: zip(urls_list, results).
http_pages(urls_l, results_l) ==
    [i \in 1..Len(urls_l) |->
        IF IsException(results_l[i])
        THEN PageContent(urls_l[i], urls_l[i], None, "", Some(results_l[i].val))
        ELSE results_l[i].val]

(***************************************************************************)
(* fetcher.py: BrowserSession.open.  `env` is what the browser did with    *)
(* the page between new_page() and page.close().                           *)
(***************************************************************************)
BrowserEnvs ==
    {[kind |-> "ok", msg |-> ""], [kind |-> "timeout", msg |-> "Timeout 20000ms exceeded."],
     [kind |-> "close_raises", msg |-> "Target closed"]}
    \cup {[kind |-> "error", msg |-> m] : m \in ExcMsgs}

session_open(url, env) ==
    CASE env.kind = "ok" -> Returned(PageContent(url, url, Some(200), "<html>", None))
      [] env.kind = "timeout" -> Returned(PageContent(url, url, None, "", Some("timeout: " \o env.msg)))
      [] env.kind = "error" -> Returned(PageContent(url, url, None, "", Some(env.msg)))
      [] env.kind = "close_raises" -> Raised(env.msg)

\* BrowserSettings.max_concurrent_pages
max_concurrent_pages == 2

\* A page that is closed only after a successful capture.
closed_after_success_only(env) == IF env.kind = "ok" THEN "closed" ELSE "open"

\* A page that open never closes.
never_closed(env) == "open"

\* `finally: await page.close()`: close is called after every outcome of the
\* try statement, and returns or raises.
page_after_open(env) == IF env.kind = "close_raises" THEN "close_raised" ELSE "closed"

(***************************************************************************)
(* State of one call of BrowserCollector.fetch_all, with the nested calls  *)
(* of _HttpFallbackFetcher.fetch_all.                                      *)
(***************************************************************************)
VARIABLES
    urls,            \* the urls argument of the call
    entry,           \* which fetch_all was called: "collector" or "http"
    playwright_ok,   \* async_playwright is not None
    pc,              \* position of the fetch_all coroutine
    urls_list,       \* deduplicated URLs
    warnings,        \* warnings of fetch_all
    session,         \* BrowserSession: acquired / released resources
    session_failure, \* exception raised at the session boundary, if any
    semaphore,       \* free permits of the asyncio.Semaphore
    tasks,           \* per URL index: the run(url) task, its position and value
    results,         \* what asyncio.gather returned for the page tasks
    completed,       \* indices of the page tasks in completion order
    loop_i,          \* index of the zip(urls_list, results) loop
    pages,           \* pages of fetch_all
    fallback_urls,   \* fallback_urls of fetch_all
    metadata,        \* metadata returned by fetch_all
    http_urls,       \* urls_list of the running _HttpFallbackFetcher.fetch_all
    http_env,        \* per index: None or Some(what the request did)
    http_completed,  \* indices of the HTTP requests in completion order
    http_calls       \* URL lists of the HTTP fallback calls made so far

fetch_vars == <<urls, entry, playwright_ok, pc, urls_list, warnings, session,
                session_failure, semaphore, tasks, results, completed, loop_i,
                pages, fallback_urls, metadata, http_urls, http_env,
                http_completed, http_calls>>

(***************************************************************************)
(* State of one pair of calls of DataRefiner.refine: the second call is    *)
(* given the cleaned records of the first.                                 *)
(***************************************************************************)
VARIABLES
    refine_pc,       \* "start", "refined", "refined_twice"
    refine_items,    \* the items argument of the first call
    refine_fields,   \* plan.fields
    refined,         \* None or Some(what the first call returned)
    refined_again    \* None or Some(what the second call returned)

refine_vars == <<refine_pc, refine_items, refine_fields, refined, refined_again>>

\* PromptPlanner.plan: one call.
VARIABLES
    plan_pc,            \* where the call is: "start", "query", "merge", "returned", "raised"
    plan_prompt,        \* the prompt argument
    plan_max_pages,     \* the max_pages argument (None or an integer)
    plan_model,         \* what the planner's intent model does
    plan_heuristic,     \* the local `heuristic`
    plan_suggestion,    \* the local `model_suggestion`
    plan_outcome        \* the ScrapePlan returned or the error raised

plan_vars == <<plan_pc, plan_prompt, plan_max_pages, plan_model, plan_heuristic,
               plan_suggestion, plan_outcome>>

\* ScrapingEngine.run: one call.
VARIABLES
    run_pc,             \* "plan", "fetch", "loop", "returned", "serialized", "raised"
    run_prompt,         \* the prompt argument
    run_max_pages,      \* the max_pages argument
    run_model,          \* what the planner's intent model does
    run_plan,           \* the local `plan` (None before the planner returns)
    run_urls,           \* the local `urls`
    run_warnings,       \* the local `warnings`
    run_pages,          \* the local `pages`
    run_metadata,       \* the local `fetch_metadata`
    run_i,              \* index of the page the loop handles next
    run_items,          \* the local `items`
    run_errors,         \* the local `errors`
    run_source_urls,    \* the local `source_urls`
    run_outcome,        \* the ScrapeOutcome returned or the exception raised
    run_analyzed,       \* history: indexes of the pages given to extract_items
    run_item_pages,     \* history: for each element of `items`, the index of its page
    run_result,         \* main.py: `result = outcome.to_dict()`
    run_effective_page_limit    \* the local `effective_page_limit` (0 before it is set)

run_vars == <<run_pc, run_prompt, run_max_pages, run_model, run_plan, run_urls,
              run_warnings, run_pages, run_metadata, run_i, run_items, run_errors,
              run_source_urls, run_outcome, run_analyzed, run_item_pages, run_result,
              run_effective_page_limit>>

\* Calls of PaginationPlan.generate_urls and of ScrapePlan.expand_urls.
VARIABLES
    exp_pc,             \* "start", "generated", "regenerated", "expanded"
    exp_plan,           \* the ScrapePlan
    exp_limit,          \* the limit argument
    exp_generated,      \* what generate_urls(seed_url, limit) returned
    exp_regenerated,    \* what a second call with the same arguments returned
    exp_urls            \* what expand_urls(limit) returned

exp_vars == <<exp_pc, exp_plan, exp_limit, exp_generated, exp_regenerated, exp_urls>>

\* One call of BrowserSession.open(url, interactions).
VARIABLES
    open_pc,            \* "start", "goto", "steps", "close", "done"
    open_interactions,  \* the interactions argument
    open_i,             \* index of the step the loop of _perform_interactions handles next
    open_trace,         \* history: what was called on the page, in order
    open_page,          \* the browser page: "none", "open", "closed", "close_raised"
    open_response,      \* response.status of goto, None for no response
    open_pending,       \* the PageContent a return statement of the try block holds
    open_result         \* what open returned or raised

open_vars == <<open_pc, open_interactions, open_i, open_trace, open_page, open_response,
               open_pending, open_result>>

\* One call of a function of the planner or the analyzer on given arguments.
VARIABLES
    call_pc,      \* "start", then the name of what was called
    call_args,    \* the arguments of the call
    call_result   \* what the call returned

call_vars == <<call_pc, call_args, call_result>>

vars == <<fetch_vars, refine_vars, plan_vars, run_vars, exp_vars, open_vars, call_vars>>

not_fetch_vars == <<refine_vars, plan_vars, run_vars, exp_vars, open_vars, call_vars>>

not_refine_vars == <<fetch_vars, plan_vars, run_vars, exp_vars, open_vars, call_vars>>

not_plan_vars == <<fetch_vars, refine_vars, run_vars, exp_vars, open_vars, call_vars>>

not_run_vars == <<fetch_vars, refine_vars, plan_vars, exp_vars, open_vars, call_vars>>

not_exp_vars == <<fetch_vars, refine_vars, plan_vars, run_vars, open_vars, call_vars>>

not_open_vars == <<fetch_vars, refine_vars, plan_vars, run_vars, exp_vars, call_vars>>

not_call_vars == <<fetch_vars, refine_vars, plan_vars, run_vars, exp_vars, open_vars>>

NoSession == [playwright |-> "none", browser |-> "none", context |-> "none"]

FetchInit ==
    /\ urls \in SeqsUpTo(FetchUrls, MaxUrls)
    /\ entry \in {"collector", "http"}
    /\ playwright_ok \in BOOLEAN
    /\ (entry = "http" => playwright_ok)
    /\ pc = "start"
    /\ urls_list = <<>>
    /\ warnings = <<>>
    /\ session = NoSession
    /\ session_failure = None
    /\ semaphore = 0
    /\ tasks = <<>>
    /\ results = <<>>
    /\ completed = <<>>
    /\ loop_i = 0
    /\ pages = <<>>
    /\ fallback_urls = <<>>
    /\ metadata = None
    /\ http_urls = <<>>
    /\ http_env = <<>>
    /\ http_completed = <<>>
    /\ http_calls = <<>>

\* Entering _HttpFallbackFetcher.fetch_all(l): for an empty list it returns at
\* once, otherwise the requests are started.
http_begin(l) ==
    /\ http_urls' = l
    /\ http_env' = [i \in 1..Len(l) |-> None]
    /\ http_completed' = <<>>
    /\ http_calls' = Append(http_calls, l)

\* Direct call of _HttpFallbackFetcher.fetch_all(urls).
HttpDirectStart ==
    /\ pc = "start" /\ entry = "http"
    /\ urls_list' = urls
    /\ http_begin(urls)
    /\ pc' = "http_direct"
    /\ UNCHANGED not_fetch_vars
    /\ UNCHANGED <<urls, entry, playwright_ok, warnings, session, session_failure,
                   semaphore, tasks, results, completed, loop_i, pages,
                   fallback_urls, metadata>>

\* One request of the HTTP batch ends (client.get returned or raised).
HttpRequestEnds ==
    /\ pc \in {"http_direct", "http_all", "http_one"}
    /\ \E i \in 1..Len(http_urls), env \in HttpEnvs :
          /\ http_env[i] = None
          /\ http_env' = [http_env EXCEPT ![i] = Some(env)]
          /\ http_completed' = Append(http_completed, i)
    /\ UNCHANGED not_fetch_vars
    /\ UNCHANGED <<urls, entry, playwright_ok, pc, urls_list, warnings, session,
                   session_failure, semaphore, tasks, results, completed, loop_i,
                   pages, fallback_urls, metadata, http_urls, http_calls>>

\* The values asyncio.gather hands back: one per awaitable, in argument order.
gather_completion_order(vals, order) == [i \in 1..Len(vals) |-> vals[order[i]]]

gather(vals, order) == vals

http_results == [i \in 1..Len(http_urls) |-> _fetch_single(http_urls[i], http_env[i][1])]

\* What _HttpFallbackFetcher.fetch_all returns once every request has ended.
http_fetch_all_value == http_pages(http_urls, gather(http_results, http_completed))

http_all_ended == \A i \in 1..Len(http_urls) : http_env[i] # None

\* _HttpFallbackFetcher.fetch_all returns to its caller.
HttpReturns ==
    /\ pc \in {"http_direct", "http_all", "http_one"}
    /\ http_all_ended
    /\ \/ /\ pc = "http_direct"
          /\ pages' = http_fetch_all_value
          /\ pc' = "done"
          /\ UNCHANGED <<metadata, fallback_urls, loop_i>>
       \/ /\ pc = "http_all"
          /\ pages' = http_fetch_all_value
          /\ metadata' = Some([transport |-> "http", fallback_urls |-> None])
          /\ pc' = "done"
          /\ UNCHANGED <<fallback_urls, loop_i>>
       \/ /\ pc = "http_one"
          /\ pages' = pages \o http_fetch_all_value
          /\ fallback_urls' = Append(fallback_urls, urls_list[loop_i])
          /\ loop_i' = loop_i + 1
          /\ pc' = "loop"
          /\ UNCHANGED metadata
    /\ UNCHANGED not_fetch_vars
    /\ UNCHANGED <<urls, entry, playwright_ok, urls_list, warnings, session,
                   session_failure, semaphore, tasks, results, completed,
                   http_urls, http_env, http_completed, http_calls>>


(***************************************************************************)
(* BrowserCollector.fetch_all                                              *)
(***************************************************************************)
\* The except clause around the browser session: warn, then fetch every URL
\* through the HTTP fallback.
session_failure_propagates(detail) ==
    /\ session_failure' = Some(detail)
    /\ pc' = "raised"
    /\ UNCHANGED <<warnings, http_urls, http_env, http_completed, http_calls>>

on_session_failure(detail) ==
    /\ session_failure' = Some(detail)
    /\ warnings' = Append(warnings,
          <<"Browser automation failed; falling back to static HTTP fetching.", detail>>)
    /\ http_begin(urls_list)
    /\ pc' = "http_all"

\* fetch_all up to its first suspension: deduplicate, return at once for an
\* empty list, take the HTTP path when Playwright is missing.
CollectorStart ==
    /\ pc = "start" /\ entry = "collector"
    /\ urls_list' = dedup_fromkeys(urls)
    /\ IF urls_list' = <<>>
       THEN /\ metadata' = Some([transport |-> "browser", fallback_urls |-> None])
            /\ pc' = "done"
            /\ UNCHANGED <<warnings, http_urls, http_env, http_completed, http_calls>>
       ELSE IF ~playwright_ok
       THEN /\ warnings' = Append(warnings,
                  <<"Playwright is unavailable; falling back to HTTP fetching.">>)
            /\ http_begin(urls_list')
            /\ pc' = "http_all"
            /\ UNCHANGED metadata
       ELSE /\ pc' = "enter"
            /\ UNCHANGED <<warnings, metadata, http_urls, http_env, http_completed,
                           http_calls>>
    /\ UNCHANGED not_fetch_vars
    /\ UNCHANGED <<urls, entry, playwright_ok, session, session_failure, semaphore,
                   tasks, results, completed, loop_i, pages, fallback_urls>>

\* A semaphore with a permit for every task.
permit_per_task == Len(urls_list)

\* asyncio.Semaphore(max(1, self._settings.max_concurrent_pages))
semaphore_permits == Max2(1, max_concurrent_pages)

\* A gate that gets its permit back only from a task that returns.
released_on_return_only(free, outcome) ==
    IF outcome \in {"new_page_raises", "close_raises"} THEN free ELSE free + 1

\* Leaving `async with semaphore`: the permit is released when the body
\* returns and when it raises.
semaphore_after_exit(free, outcome) == free + 1

\* A task of the batch before it runs.
new_task == [at |-> "wait", value |-> None, page |-> "none", outcome |-> "none"]

\* BrowserSession.__aenter__: start(), launch(), new_context() in turn; k of
\* them succeed.  With k = 3 the body of the async with creates the
\* semaphore and one task per URL.
SessionEnter ==
    /\ pc = "enter"
    /\ \E k \in 0..3 :
          /\ session' = [playwright |-> IF k >= 1 THEN "held" ELSE "none",
                         browser    |-> IF k >= 2 THEN "held" ELSE "none",
                         context    |-> IF k >= 3 THEN "held" ELSE "none"]
          /\ IF k = 3
             THEN /\ semaphore' = semaphore_permits
                  /\ tasks' = [i \in 1..Len(urls_list) |-> new_task]
                  /\ pc' = "batch"
                  /\ UNCHANGED <<session_failure, warnings, http_urls, http_env,
                                 http_completed, http_calls>>
             ELSE /\ on_session_failure("session start failed")
                  /\ UNCHANGED <<semaphore, tasks>>
    /\ UNCHANGED not_fetch_vars
    /\ UNCHANGED <<urls, entry, playwright_ok, urls_list, results, completed, loop_i,
                   pages, fallback_urls, metadata>>

\* run(url): `async with semaphore` admits the task.
TaskAdmitted(i) ==
    /\ pc = "batch"
    /\ tasks[i].at = "wait"
    /\ semaphore > 0
    /\ semaphore' = semaphore - 1
    /\ tasks' = [tasks EXCEPT ![i].at = "admitted"]
    /\ UNCHANGED not_fetch_vars
    /\ UNCHANGED <<urls, entry, playwright_ok, pc, urls_list, warnings, session,
                   session_failure, results, completed, loop_i, pages, fallback_urls,
                   metadata, http_urls, http_env, http_completed, http_calls>>

\* session.open: `await self._context.new_page()`, outside the try: it opens
\* the page, or raises and ends the task (the semaphore is released).
TaskNewPage(i) ==
    /\ pc = "batch"
    /\ tasks[i].at = "admitted"
    /\ \/ /\ tasks' = [tasks EXCEPT ![i] = [@ EXCEPT !.at = "open", !.page = "open"]]
          /\ UNCHANGED <<semaphore, completed>>
       \/ /\ tasks' = [tasks EXCEPT ![i] = [at |-> "done", value |-> Some(Raised("new_page failed")),
                                             page |-> "none", outcome |-> "new_page_raises"]]
          /\ semaphore' = semaphore_after_exit(semaphore, "new_page_raises")
          /\ completed' = Append(completed, i)
    /\ UNCHANGED not_fetch_vars
    /\ UNCHANGED <<urls, entry, playwright_ok, pc, urls_list, warnings, session,
                   session_failure, results, loop_i, pages, fallback_urls,
                   metadata, http_urls, http_env, http_completed, http_calls>>

\* session.open from goto to the end of `finally: await page.close()`, then
\* the release of the semaphore: the task ends with a value.
TaskPageDone(i) ==
    /\ pc = "batch"
    /\ tasks[i].at = "open"
    /\ \E env \in BrowserEnvs :
          /\ tasks' = [tasks EXCEPT ![i] = [at |-> "done",
                                            value |-> Some(session_open(urls_list[i], env)),
                                            page |-> page_after_open(env),
                                            outcome |-> env.kind]]
          /\ semaphore' = semaphore_after_exit(semaphore, env.kind)
    /\ completed' = Append(completed, i)
    /\ UNCHANGED not_fetch_vars
    /\ UNCHANGED <<urls, entry, playwright_ok, pc, urls_list, warnings, session,
                   session_failure, results, loop_i, pages, fallback_urls,
                   metadata, http_urls, http_env, http_completed, http_calls>>

all_tasks_done == \A i \in 1..Len(tasks) : tasks[i].at = "done"

task_values == [i \in 1..Len(tasks) |-> tasks[i].value[1]]

\* gather returns, the body of the async with ends and __aexit__ closes the
\* context, the browser and Playwright in turn; step r raises (0: none).
\* When it raises, the except clause never reads the batch's results again.
SessionExit ==
    /\ pc = "batch"
    /\ all_tasks_done
    /\ \E r \in 0..3 :
          /\ session' = [context    |-> IF r = 1 THEN "held" ELSE "released",
                         browser    |-> IF r \in {1, 2} THEN "held" ELSE "released",
                         playwright |-> IF r # 0 THEN "held" ELSE "released"]
          /\ IF r = 0
             THEN /\ results' = gather(task_values, completed)
                  /\ loop_i' = 1
                  /\ pc' = "loop"
                  /\ UNCHANGED <<session_failure, warnings, tasks, completed, http_urls,
                                 http_env, http_completed, http_calls>>
             ELSE /\ on_session_failure("session teardown failed")
                  /\ tasks' = <<>>
                  /\ completed' = <<>>
                  /\ UNCHANGED <<results, loop_i>>
    /\ UNCHANGED not_fetch_vars
    /\ UNCHANGED <<urls, entry, playwright_ok, urls_list, semaphore,
                   pages, fallback_urls, metadata>>

\* One iteration of `for url, result in zip(urls_list, results)`.
CollectorLoop ==
    /\ pc = "loop"
    /\ loop_i <= Len(urls_list)
    /\ IF IsException(results[loop_i])
       THEN /\ warnings' = Append(warnings,
                  <<urls_list[loop_i], "browser task raised; using HTTP fallback.",
                    results[loop_i].val>>)
            /\ http_begin(<<urls_list[loop_i]>>)
            /\ pc' = "http_one"
            /\ UNCHANGED <<pages, loop_i>>
       ELSE /\ pages' = Append(pages, results[loop_i].val)
            /\ loop_i' = loop_i + 1
            /\ UNCHANGED <<pc, warnings, http_urls, http_env, http_completed, http_calls>>
    /\ UNCHANGED not_fetch_vars
    /\ UNCHANGED <<urls, entry, playwright_ok, urls_list, session, session_failure,
                   semaphore, tasks, results, completed, fallback_urls, metadata>>

\* After the loop: the metadata, and the return.
CollectorReturn ==
    /\ pc = "loop"
    /\ loop_i > Len(urls_list)
    /\ metadata' = Some([transport |-> "browser",
                         fallback_urls |-> IF fallback_urls # <<>> THEN Some(fallback_urls) ELSE None])
    /\ pc' = "done"
    /\ UNCHANGED not_fetch_vars
    /\ UNCHANGED <<urls, entry, playwright_ok, urls_list, warnings, session,
                   session_failure, semaphore, tasks, results, completed, loop_i,
                   pages, fallback_urls, http_urls, http_env, http_completed,
                   http_calls>>

FetchNext ==
    \/ HttpDirectStart
    \/ HttpRequestEnds
    \/ HttpReturns
    \/ CollectorStart
    \/ SessionEnter
    \/ \E i \in 1..Len(tasks) : TaskAdmitted(i)
    \/ \E i \in 1..Len(tasks) : TaskNewPage(i)
    \/ \E i \in 1..Len(tasks) : TaskPageDone(i)
    \/ SessionExit
    \/ CollectorLoop
    \/ CollectorReturn


(***************************************************************************)
(* Properties of the page collector and the HTTP fallback fetcher.         *)
(***************************************************************************)
\* Index of the first occurrence of x in s.
FirstIndex(s, x) == CHOOSE i \in 1..Len(s) : s[i] = x /\ \A j \in 1..(i - 1) : s[j] # x

\* out lists the distinct elements of in, each once, in first-seen order.
IsFirstSeenOrder(out, in) ==
    /\ Range(out) = Range(in)
    /\ \A i, j \in 1..Len(out) : i < j => FirstIndex(in, out[i]) < FirstIndex(in, out[j])

page_urls == [i \in 1..Len(pages) |-> pages[i].url]

collector_returned == pc = "done" /\ entry = "collector"

\* C1: on every path of the degradation ladder BrowserCollector.fetch_all
\* returns exactly one page per distinct input URL, and the i-th page has the
\* i-th distinct input URL (first-seen order), whatever order the page tasks
\* completed in.
C1_PagesAlignedToDistinctUrls ==
    collector_returned => IsFirstSeenOrder(page_urls, urls)

\* C1 witness: a browser batch over a list with a duplicate, in which the
\* task of the first URL was not the first to complete and one task fell
\* back to HTTP, has returned.
C1_Witness ==
    /\ collector_returned
    /\ metadata = Some([transport |-> "browser", fallback_urls |-> Some(fallback_urls)])
    /\ Len(urls) > Len(urls_list)
    /\ Len(pages) >= 2
    /\ completed # <<>> /\ completed[1] # 1

fallback_warning_texts ==
    {"Playwright is unavailable; falling back to HTTP fetching.",
     "Browser automation failed; falling back to static HTTP fetching."}

\* The whole result came from one HTTP fallback call over the distinct URLs.
http_fallback_outcome ==
    /\ IsFirstSeenOrder(page_urls, urls)
    /\ http_calls = <<urls_list>>
    /\ \A i \in 1..Len(pages) : pages[i] = _fetch_single(urls_list[i], http_env[i][1]).val
    /\ \E i \in 1..Len(warnings) : warnings[i][1] \in fallback_warning_texts
    /\ metadata # None /\ metadata[1].transport = "http"

browser_unusable == ~playwright_ok \/ session_failure # None

\* C2 as stated: whenever browser automation is unavailable or fails at the
\* session boundary, fetch_all returns one HTTP-fetched page per distinct
\* URL, a fallback warning and transport "http", and does not raise.
C2_FallbackWheneverBrowserUnusable ==
    /\ pc # "raised"
    /\ (collector_returned /\ browser_unusable) => http_fallback_outcome

\* C2 amended: the same for every non-empty URL list (for an empty list
\* fetch_all returns before it looks at the browser: no warning, transport
\* "browser").
C2_FallbackForNonEmptyList ==
    /\ pc # "raised"
    /\ (collector_returned /\ browser_unusable /\ urls # <<>>) => http_fallback_outcome
    /\ (collector_returned /\ urls = <<>>) =>
          /\ pages = <<>> /\ warnings = <<>>
          /\ metadata = Some([transport |-> "browser", fallback_urls |-> None])

\* C2 witness: the session teardown raised after a batch over two URLs or
\* more, and fetch_all has returned the HTTP pages.
C2_Witness ==
    /\ collector_returned
    /\ session_failure = Some("session teardown failed")
    /\ Len(pages) >= 2

request_failed(env) == env.kind = "exception" \/ IsErrorStatus(env.status)

\* C9: _HttpFallbackFetcher.fetch_all returns one page per input URL in input
\* order, and a URL whose request ended in an error status or a transport
\* error has a non-empty error and is not a success.
C9_HttpFailuresCapturedNonEmpty ==
    (pc = "done" /\ entry = "http") =>
        /\ Len(pages) = Len(urls)
        /\ \A i \in 1..Len(pages) :
              /\ pages[i].url = urls[i]
              /\ request_failed(http_env[i][1]) =>
                    /\ pages[i].error # None
                    /\ pages[i].error # Some("")
                    /\ ~success(pages[i])

\* The tasks whose browser page is open: new_page has returned and close
\* has not been called.
open_pages == {i \in 1..Len(tasks) : tasks[i].page = "open"}

\* C17: at every moment of a browser batch at most
\* max(1, max_concurrent_pages) browser pages are open.
C17_OpenPagesBounded ==
    /\ Cardinality(open_pages) <= Max2(1, max_concurrent_pages)
    /\ pc = "batch" => Cardinality(open_pages) + semaphore <= Max2(1, max_concurrent_pages)

\* C17 witness: as many pages are open as the bound allows while another
\* task waits for the semaphore, after an earlier page was closed.
C17_Witness ==
    /\ pc = "batch"
    /\ Cardinality(open_pages) = Max2(1, max_concurrent_pages)
    /\ semaphore = 0
    /\ \E i \in 1..Len(tasks) : tasks[i].at = "wait"

SessionResources == {"context", "browser", "playwright"}

\* C18: when fetch_all ends, the session holds none of the resources it
\* acquired: context, browser and Playwright were released, also after a
\* start-up that failed part-way and after a teardown step that raised.
C18_SessionResourcesReleased ==
    pc = "done" => \A resource \in SessionResources : session[resource] # "held"

\* What the code gives: after a batch whose start-up and teardown both went
\* through, everything acquired is released; and a resource is held at the
\* end only after a failure at the session boundary.
C18_ReleasedWithoutSessionFailure ==
    (pc = "done" /\ session_failure = None) =>
        \A resource \in SessionResources : session[resource] \in {"none", "released"}

\* fetch_all has ended with Playwright started and never stopped: the browser
\* launch raised at start-up.
C18_LeakExample ==
    /\ pc = "done"
    /\ session = [playwright |-> "held", browser |-> "none", context |-> "none"]
    /\ session_failure = Some("session start failed")

\* The tasks whose call of session.open got its page and has ended.
opened_and_ended == {i \in 1..Len(tasks) : tasks[i].at = "done" /\ tasks[i].outcome # "new_page_raises"}

\* C19: when open ends after a successful capture, a navigation timeout or any
\* other exception between goto and content, its page is closed and it
\* returns a PageContent, with error None after a capture and an error set
\* after a failure; whatever the outcome, no page stays open after open ends.
C19_PageClosedOnEveryOutcome ==
    \A i \in opened_and_ended :
        /\ tasks[i].page # "open"
        /\ tasks[i].outcome \in {"ok", "timeout", "error"} =>
              /\ tasks[i].page = "closed"
              /\ ~IsException(tasks[i].value[1])
              /\ tasks[i].value[1].val.url = urls_list[i]
              /\ (tasks[i].outcome = "ok") <=> (tasks[i].value[1].val.error = None)

\* C19 witness: three calls of open have ended, one after a capture, one
\* after a timeout and one after another exception.
C19_Witness ==
    /\ pc = "batch"
    /\ \A kind \in {"ok", "timeout", "error"} : \E i \in opened_and_ended : tasks[i].outcome = kind
    /\ \A i \in opened_and_ended : tasks[i].page = "closed"

\* The tasks of the batch that raised: new_page raised, or page.close did.
raised_tasks == {i \in 1..Len(tasks) : tasks[i].outcome \in {"new_page_raises", "close_raises"}}

\* The elements of s at the indexes in kept, in order.
RECURSIVE select_at(_, _)
select_at(s, kept) ==
    IF s = <<>> THEN <<>>
    ELSE select_at(Front(s), kept) \o (IF Len(s) \in kept THEN <<Last(s)>> ELSE <<>>)

\* fetch_all has returned after a batch that ended without a failure at the
\* session boundary.
batch_returned == collector_returned /\ results # <<>>

\* C20: after a batch whose session went through, the HTTP fallback was
\* called once for each URL whose task raised, in input order, and for no
\* other URL; every other page is the task's result; transport is "browser";
\* fallback_urls lists those URLs in input order and is absent when there is
\* none; and there is one warning per such URL.
C20_RaisedTasksFallBackAlone ==
    batch_returned =>
        LET refetched == select_at(urls_list, raised_tasks)
        IN  /\ http_calls = [k \in 1..Len(refetched) |-> <<refetched[k]>>]
            /\ Len(pages) = Len(urls_list)
            /\ \A i \in 1..Len(urls_list) :
                  IF i \in raised_tasks
                  THEN pages[i].url = urls_list[i]
                  ELSE pages[i] = results[i].val
            /\ metadata[1].transport = "browser"
            /\ metadata[1].fallback_urls = IF raised_tasks = {} THEN None ELSE Some(refetched)
            /\ Len(warnings) = Len(refetched)
            /\ \A k \in 1..Len(refetched) : warnings[k][1] = refetched[k]

\* C20 witness: of three tasks the first and the last raised, and the page
\* of the second is the one its task returned.
C20_Witness ==
    /\ batch_returned
    /\ Len(urls_list) = 3
    /\ raised_tasks = {1, 3}
    /\ pages[2] = results[2].val
    /\ metadata[1].fallback_urls = Some(<<urls_list[1], urls_list[3]>>)
    /\ Len(http_calls) = 2

\* Task i of the batch waits at the gate.
waiting_at_gate(i) == pc = "batch" /\ i <= Len(tasks) /\ tasks[i].at = "wait"

admitted_by_gate(i) == pc = "batch" /\ i <= Len(tasks) /\ tasks[i].at = "admitted"

\* The tasks that hold a permit.
permit_holders == {i \in 1..Len(tasks) : tasks[i].at \in {"admitted", "open"}}

\* C23: when every page operation and every HTTP request terminates, the
\* free permits and the permits held always add up to the gate's size (so a
\* task that ends, by return or by exception, has given its permit back),
\* every task that waits at the gate is eventually admitted, and fetch_all
\* eventually returns.
C23_GateAdmitsAndReleases ==
    /\ [](pc = "batch" => semaphore + Cardinality(permit_holders) = Max2(1, max_concurrent_pages))
    /\ \A i \in 1..MaxUrls : waiting_at_gate(i) ~> admitted_by_gate(i)
    /\ <>(pc = "done")

\* C23 witness: the third task of a batch is admitted after the two tasks
\* before it ended by an exception, one at new_page and one at page.close.
C23_Witness ==
    /\ admitted_by_gate(3)
    /\ tasks[1].outcome = "new_page_raises"
    /\ tasks[2].outcome = "close_raises"
    /\ semaphore = 1

\* The step in which __aexit__ starts: the coroutine leaves the body of the
\* async with.
teardown_starts == pc = "batch" /\ pc' # "batch"

\* C22: at the step in which the session starts closing its context, every
\* page task of the batch has ended (returned or raised) and no page of the
\* batch is open, also when some of the tasks raised.
C22_TeardownAfterPageWork ==
    [][teardown_starts =>
          \A i \in 1..Len(tasks) :
              /\ tasks[i].at = "done"
              /\ tasks[i].value # None
              /\ tasks[i].page # "open"]_vars

\* C22 witness: the teardown of a batch of three has gone through after the
\* first task raised at new_page, the second at page.close and the third
\* returned its page.
C22_Witness ==
    /\ pc = "loop"
    /\ session.context = "released"
    /\ Len(tasks) = 3
    /\ tasks[1].outcome = "new_page_raises"
    /\ tasks[2].outcome = "close_raises"
    /\ tasks[3].outcome = "ok"
    /\ \A i \in 1..3 : tasks[i].at = "done"


(***************************************************************************)
(* types.py: FieldSpec and default_field_library.  library_names is the    *)
(* insertion order of the dict; synonyms are lower-cased at construction.  *)
(***************************************************************************)
FieldSpec(name, synonyms, value_type, attribute_preferences, allow_partial) ==
    [name |-> name, synonyms |-> synonyms, value_type |-> value_type,
     attribute_preferences |-> attribute_preferences, allow_partial |-> allow_partial]

library_names ==
    <<"title", "name", "description", "price", "rating", "date", "author",
      "location", "url", "image", "category">>

default_field_library ==
    [n \in Range(library_names) |->
       CASE n = "title" -> FieldSpec(n, {"title", "headline", "heading"}, "text", <<>>, FALSE)
         [] n = "name" -> FieldSpec(n, {"name", "names", "company", "product", "listing"}, "text", <<>>, FALSE)
         [] n = "description" -> FieldSpec(n, {"description", "summary", "details", "overview", "about"}, "text", <<>>, TRUE)
         [] n = "price" -> FieldSpec(n, {"price", "cost", "amount", "fee", "salary", "rate"}, "numeric", <<>>, FALSE)
         [] n = "rating" -> FieldSpec(n, {"rating", "score", "review", "stars", "rank"}, "numeric", <<>>, FALSE)
         [] n = "date" -> FieldSpec(n, {"date", "posted", "published", "updated", "time", "deadline"}, "date", <<>>, FALSE)
         [] n = "author" -> FieldSpec(n, {"author", "by", "creator", "writer", "seller"}, "text", <<>>, FALSE)
         [] n = "location" -> FieldSpec(n, {"location", "city", "state", "country", "address", "region"}, "text", <<>>, FALSE)
         [] n = "url" -> FieldSpec(n, {"url", "link", "website", "websites", "href", "source"}, "link", <<"href">>, FALSE)
         [] n = "image" -> FieldSpec(n, {"image", "photo", "thumbnail", "picture", "logo"}, "image",
                                     <<"src", "data-src", "data-original", "data-lazy">>, FALSE)
         [] n = "category" -> FieldSpec(n, {"category", "type", "tag", "genre", "sector"}, "text", <<>>, FALSE)]

(***************************************************************************)
(* pipeline.py: DataRefiner.  A string value is a sequence of characters;  *)
(* a record (dict) is a function from the field names it has to values.    *)
(***************************************************************************)
\* Characters that \s matches and str.strip() strips.
IsSpaceChar(c) == c \in {" ", "\t", "\n"}

\* Code points of the characters of the model's strings (for sorted()).
CharCode(c) ==
    CASE c = "\t" -> 9 [] c = "\n" -> 10 [] c = " " -> 32 [] c = "-" -> 45
      [] c = "A" -> 65 [] c = "B" -> 66 [] c = "a" -> 97 [] c = "b" -> 98
      [] c = "x" -> 120 [] c = "y" -> 121

RECURSIVE lstrip(_)
lstrip(s) == IF s # <<>> /\ IsSpaceChar(s[1]) THEN lstrip(Tail(s)) ELSE s

RECURSIVE rstrip(_)
rstrip(s) == IF s # <<>> /\ IsSpaceChar(Last(s)) THEN rstrip(Front(s)) ELSE s

\* str.strip()
strip(s) == rstrip(lstrip(s))

\* _WHITESPACE_RE.sub(" ", value): every run of whitespace becomes one space.
RECURSIVE collapse_whitespace(_)
collapse_whitespace(s) ==
    IF s = <<>> THEN <<>>
    ELSE IF IsSpaceChar(s[1]) THEN <<" ">> \o collapse_whitespace(lstrip(s))
    ELSE <<s[1]>> \o collapse_whitespace(Tail(s))

\* A variant that trims blanks only, and before collapsing.
RECURSIVE trim_blanks(_)
trim_blanks(s) ==
    IF s # <<>> /\ s[1] = " " THEN trim_blanks(Tail(s))
    ELSE IF s # <<>> /\ Last(s) = " " THEN trim_blanks(Front(s))
    ELSE s

normalize_trim_first(value) == collapse_whitespace(trim_blanks(value))

_normalize_value(value) == strip(collapse_whitespace(value))

\* str.lower()
lower_char(c) == CASE c = "A" -> "a" [] c = "B" -> "b" [] OTHER -> c

\* A signature component that keeps the letter case of the value.
case_kept(s) == s

lower(s) == [i \in 1..Len(s) |-> lower_char(s[i])]

\* s < t in Python's string order.
RECURSIVE str_less(_, _)
str_less(s, t) ==
    IF t = <<>> THEN FALSE
    ELSE IF s = <<>> THEN TRUE
    ELSE IF s[1] # t[1] THEN CharCode(s[1]) < CharCode(t[1])
    ELSE str_less(Tail(s), Tail(t))

\* "-".join(parts)
RECURSIVE join_dash(_)
join_dash(parts) ==
    IF parts = <<>> THEN <<>>
    ELSE IF Len(parts) = 1 THEN parts[1]
    ELSE parts[1] \o <<"-">> \o join_dash(Tail(parts))

\* item.values(), in the insertion order of the keys.
\* The order plays no part: the only reader sorts the values.
RECURSIVE values_in(_, _)
values_in(item, names) ==
    IF names = <<>> THEN <<>>
    ELSE IF names[1] \in DOMAIN item THEN <<item[names[1]]>> \o values_in(item, Tail(names))
    ELSE values_in(item, Tail(names))

dict_values(item) == values_in(item, library_names)

\* item.get(name, "")
dict_get(item, name) == IF name \in DOMAIN item THEN item[name] ELSE <<>>

\* The components loop of _signature over the plan's fields.
RECURSIVE signature_components(_, _)
signature_components(item, fields) ==
    IF fields = <<>> THEN <<>>
    ELSE IF fields[1].value_type \in {"image", "link"}
    THEN signature_components(item, Tail(fields))
    ELSE <<lower(dict_get(item, fields[1].name))>> \o signature_components(item, Tail(fields))

_signature(item, fields) ==
    LET components == signature_components(item, fields)
    IN  IF components = <<>>
        THEN <<join_dash(SortSeq(dict_values(item), str_less))>>
        ELSE components

normalize_item(item) == [k \in DOMAIN item |-> _normalize_value(item[k])]

\* The loop of refine over items: [cleaned, seen, duplicates_removed].
RECURSIVE refine_loop(_, _)
refine_loop(items, fields) ==
    IF items = <<>> THEN [cleaned |-> <<>>, seen |-> {}, duplicates_removed |-> 0]
    ELSE LET before == refine_loop(Front(items), fields)
             normalized == normalize_item(Last(items))
             signature == _signature(normalized, fields)
         IN  IF signature \in before.seen
             THEN [before EXCEPT !.duplicates_removed = @ + 1]
             ELSE [cleaned |-> Append(before.cleaned, normalized),
                   seen |-> before.seen \cup {signature},
                   duplicates_removed |-> before.duplicates_removed]

\* A count of the records that have the key, whatever its value.
population_of_keys(items, fields) ==
    [i \in 1..Len(fields) |->
        <<fields[i].name, Cardinality({j \in 1..Len(items) : fields[i].name \in DOMAIN items[j]})>>]

\* `if item.get(field.name)`: the value is there and not empty.
_field_population(items, fields) ==
    [i \in 1..Len(fields) |->
        <<fields[i].name,
          Cardinality({j \in 1..Len(items) : dict_get(items[j], fields[i].name) # <<>>})>>]

refine(items, fields) ==
    IF items = <<>>
    THEN [cleaned |-> <<>>,
          stats |-> [records_before_cleaning |-> 0, records_after_cleaning |-> 0,
                     duplicates_removed |-> 0],
          warnings |-> <<>>]
    ELSE LET done == refine_loop(items, fields)
             field_population == _field_population(done.cleaned, fields)
         IN  [cleaned |-> done.cleaned,
              stats |-> [records_before_cleaning |-> Len(items),
                         records_after_cleaning |-> Len(done.cleaned),
                         duplicates_removed |-> done.duplicates_removed,
                         field_population |-> field_population],
              warnings |-> SelectSeq(field_population, LAMBDA fp : fp[2] = 0)]


\* Longest record list handed to refine.
MaxItems == 3

\* Values of the title and url fields of the records handed to refine.
RefineTitles == {<<"a">>, <<"A", " ">>, <<"a", " ", " ", "b">>, <<"\t", "a", " ", "b">>, <<" ">>}

RefineLinks == {<<"x">>, <<"y", " ">>}

RefineRecords ==
    {<<>>}
    \cup {[n \in {"title"} |-> t] : t \in RefineTitles}
    \cup {[n \in {"url"} |-> u] : u \in RefineLinks}
    \cup {[n \in {"title", "url"} |-> IF n = "title" THEN t ELSE u] :
             t \in RefineTitles, u \in RefineLinks}

\* plan.fields: with a text field, and with link and image fields only.
RefineFieldLists ==
    {<<default_field_library["title"], default_field_library["url"]>>,
     <<default_field_library["url"], default_field_library["image"]>>,
     <<default_field_library["title"]>>}

RefineInit ==
    /\ refine_pc = "start"
    /\ refine_items \in SeqsUpTo(RefineRecords, MaxItems)
    /\ refine_fields \in RefineFieldLists
    /\ refined = None
    /\ refined_again = None

RefineIdle ==
    /\ refine_pc = "idle"
    /\ refine_items = <<>>
    /\ refine_fields = <<>>
    /\ refined = None
    /\ refined_again = None

\* refiner.refine(items, plan)
RefineFirst ==
    /\ refine_pc = "start"
    /\ refined' = Some(refine(refine_items, refine_fields))
    /\ refine_pc' = "refined"
    /\ UNCHANGED <<refine_items, refine_fields, refined_again>>
    /\ UNCHANGED not_refine_vars

\* refiner.refine(cleaned, plan) on the records the first call returned.
RefineSecond ==
    /\ refine_pc = "refined"
    /\ refined_again' = Some(refine(refined[1].cleaned, refine_fields))
    /\ refine_pc' = "refined_twice"
    /\ UNCHANGED <<refine_items, refine_fields, refined>>
    /\ UNCHANGED not_refine_vars

RefineNext == RefineFirst \/ RefineSecond

\* C10: refining the cleaned records of a previous refine call (same plan)
\* returns the same records in the same order and removes no duplicate.
C10_RefineIdempotent ==
    refine_pc = "refined_twice" =>
        /\ refined_again[1].cleaned = refined[1].cleaned
        /\ refined_again[1].stats.duplicates_removed = 0

\* C10 witness: the first call normalized a value and dropped a duplicate,
\* two records survived, and the second call has returned.
C10_Witness ==
    /\ refine_pc = "refined_twice"
    /\ refined[1].stats.duplicates_removed >= 1
    /\ Len(refined[1].cleaned) >= 2
    /\ \E i \in 1..Len(refine_items) : normalize_item(refine_items[i]) # refine_items[i]

\* The first word of s in lower case (s starts with a non-space character).
RECURSIVE first_word_folded(_)
first_word_folded(s) ==
    IF s = <<>> \/ IsSpaceChar(s[1]) THEN <<>>
    ELSE <<lower_char(s[1])>> \o first_word_folded(Tail(s))

\* The words of s, in lower case: what is left of a value when letter case
\* and whitespace are ignored.
RECURSIVE folded_words(_)
folded_words(s) ==
    IF s = <<>> THEN <<>>
    ELSE IF IsSpaceChar(s[1]) THEN folded_words(Tail(s))
    ELSE LET w == first_word_folded(s)
         IN  <<w>> \o folded_words(SubSeq(s, Len(w) + 1, Len(s)))

is_text_field(field) == field.value_type \notin {"image", "link"}

has_text_field(fields) == \E i \in 1..Len(fields) : is_text_field(fields[i])

\* Two records differ at most by letter case and whitespace in every planned
\* field that is neither a link nor an image.
differ_by_case_and_space(a, b, fields) ==
    \A i \in 1..Len(fields) :
        is_text_field(fields[i]) =>
            folded_words(dict_get(a, fields[i].name)) = folded_words(dict_get(b, fields[i].name))

\* refine has returned for two records that differ at most by case and
\* whitespace in the plan's text fields.
two_alike_refined ==
    /\ refine_pc \in {"refined", "refined_twice"}
    /\ Len(refine_items) = 2
    /\ differ_by_case_and_space(refine_items[1], refine_items[2], refine_fields)

\* refine returned the first record only, normalized, and counted one
\* duplicate.
first_kept_one_removed ==
    /\ refined[1].cleaned = <<normalize_item(refine_items[1])>>
    /\ refined[1].stats.duplicates_removed = 1
    /\ refined[1].stats.records_after_cleaning = 1

SpaceChunks == {" "}

\* What `https?://` matches (re.IGNORECASE).
SchemeChunks == {"https://", "http://", "HTTPS://"}

\* The characters of rstrip(".,)'\"").
TrailChunks == {".", ",", ")", "'", "\""}

\* Chunks made of digits, with int() of them.
DigitChunks == {"0", "1", "2", "3"}

int_of(chunk) == CASE chunk = "0" -> 0 [] chunk = "1" -> 1 [] chunk = "2" -> 2 [] chunk = "3" -> 3

\* str.lower() of a chunk.
lower_chunk(chunk) ==
    CASE chunk = "Get" -> "get" [] chunk = "First" -> "first" [] chunk = "HTTPS://" -> "https://"
      [] chunk = "Title" -> "title" [] chunk = "Link" -> "link"
      [] OTHER -> chunk

\* re.findall(r"[a-zA-Z0-9]+", chunk.lower())
alnum_tokens(chunk) ==
    CASE chunk \in SpaceChunks \cup TrailChunks \cup {"(", "?", "&", "/"} -> {}
      [] chunk \in {"https://", "HTTPS://"} -> {"https"}
      [] chunk = "http://" -> {"http"}
      [] chunk = "example.com" -> {"example", "com"}
      [] chunk = "x.com" -> {"x", "com"}
      [] chunk = "s.com" -> {"s", "com"}
      [] chunk = "[bad" -> {"bad"}
      [] chunk = "/list" -> {"list"}
      [] chunk = "/items" -> {"items"}
      [] chunk = "/price" -> {"price"}
      [] chunk = "/page/" -> {"page"}
      [] chunk = "page=" -> {"page"}
      [] chunk = "q=" -> {"q"}
      [] OTHER -> {lower_chunk(chunk)}

\* The pieces of chunk.lower() between the "/" it holds (re.split on "/").
slash_pieces(chunk) ==
    CASE chunk \in {"https://", "HTTPS://"} -> <<"https:", "", "">>
      [] chunk = "http://" -> <<"http:", "", "">>
      [] chunk = "/" -> <<"", "">>
      [] chunk = "/list" -> <<"", "list">>
      [] chunk = "/items" -> <<"", "items">>
      [] chunk = "/price" -> <<"", "price">>
      [] chunk = "/page/" -> <<"", "page", "">>
      [] OTHER -> <<lower_chunk(chunk)>>

\* chunk.lower() ends with "first" or "top" / starts with "page".
EndsWithFirstOrTop(chunk) == lower_chunk(chunk) \in {"first", "top"}

StartsWithPage(chunk) == lower_chunk(chunk) \in {"page", "pages", "page="}

\* `not prompt or not prompt.strip()`
prompt_blank(prompt) == \A i \in 1..Len(prompt) : prompt[i] \in SpaceChunks

\* The run of non-space chunks at the head of s: what [^\s]+ consumes.
RECURSIVE take_nonspace(_)
take_nonspace(s) ==
    IF s = <<>> \/ s[1] \in SpaceChunks THEN <<>>
    ELSE <<s[1]>> \o take_nonspace(Tail(s))

RECURSIVE skip_spaces(_)
skip_spaces(s) == IF s # <<>> /\ s[1] \in SpaceChunks THEN skip_spaces(Tail(s)) ELSE s

\* A match kept with its trailing punctuation.
keep_punctuation(m) == m

\* match.rstrip(".,)'\"")
RECURSIVE rstrip_punctuation(_)
rstrip_punctuation(m) ==
    IF m # <<>> /\ Last(m) \in TrailChunks THEN rstrip_punctuation(Front(m)) ELSE m

\* _URL_RE.findall(prompt): the non-overlapping matches of https?://[^\s]+.
RECURSIVE url_findall(_)
url_findall(s) ==
    IF s = <<>> THEN <<>>
    ELSE IF s[1] \in SchemeChunks /\ take_nonspace(Tail(s)) # <<>>
    THEN LET m == <<s[1]>> \o take_nonspace(Tail(s))
         IN  <<m>> \o url_findall(SubSeq(s, Len(m) + 1, Len(s)))
    ELSE url_findall(Tail(s))

_extract_urls(prompt) ==
    LET found == url_findall(prompt)
    IN  [i \in 1..Len(found) |-> rstrip_punctuation(found[i])]

\* `\s+pages?` at the head of s.
spaces_then_page(s) ==
    /\ s # <<>> /\ s[1] \in SpaceChunks
    /\ skip_spaces(s) # <<>> /\ StartsWithPage(skip_spaces(s)[1])

\* _PAGE_RANGE_RE.search: (?:first|top)\s+(\d+)\s+pages?, leftmost match.
RECURSIVE page_range_search(_)
page_range_search(s) ==
    IF s = <<>> THEN None
    ELSE LET r == skip_spaces(Tail(s))
         IN  IF /\ EndsWithFirstOrTop(s[1])
                /\ Len(s) >= 2 /\ s[2] \in SpaceChunks
                /\ r # <<>> /\ r[1] \in DigitChunks
                /\ spaces_then_page(Tail(r))
             THEN Some(int_of(r[1]))
             ELSE page_range_search(Tail(s))

\* _GENERIC_COUNT_RE.search: (\d+)\s+pages?, leftmost match.
RECURSIVE generic_count_search(_)
generic_count_search(s) ==
    IF s = <<>> THEN None
    ELSE IF s[1] \in DigitChunks /\ spaces_then_page(Tail(s))
    THEN Some(int_of(s[1]))
    ELSE generic_count_search(Tail(s))

_infer_requested_pages(prompt) ==
    IF page_range_search(prompt) # None THEN page_range_search(prompt)
    ELSE generic_count_search(prompt)

(***************************************************************************)
(* planner.py: field and interaction inference.                            *)
(***************************************************************************)
InteractionStep(kind, selector, count, wait_ms, value, note) ==
    [kind |-> kind, selector |-> selector, count |-> count, wait_ms |-> wait_ms,
     value |-> value, note |-> note]

IntentSuggestion(seed_url, extra_urls, field_names, max_pages, interactions, notes) ==
    [seed_url |-> seed_url, extra_urls |-> extra_urls, field_names |-> field_names,
     max_pages |-> max_pages, interactions |-> interactions, notes |-> notes]

\* set(re.findall(r"[a-zA-Z0-9]+", prompt_lower))
prompt_tokens(prompt) == UNION {alnum_tokens(prompt[i]) : i \in 1..Len(prompt)}

\* First loop of _infer_fields: the library names, in library order, whose
\* name or one of whose synonyms is a token of the prompt.
RECURSIVE fields_by_token(_, _)
fields_by_token(names, tokens) ==
    IF names = <<>> THEN <<>>
    ELSE (IF names[1] \in tokens \/ default_field_library[names[1]].synonyms \cap tokens # {}
          THEN <<names[1]>> ELSE <<>>)
         \o fields_by_token(Tail(names), tokens)

\* prompt_lower.split(" from ")[0]
RECURSIVE before_from(_)
before_from(s) ==
    IF s = <<>> THEN <<>>
    ELSE IF Len(s) >= 3 /\ s[1] = " " /\ lower_chunk(s[2]) = "from" /\ s[3] = " " THEN <<>>
    ELSE <<s[1]>> \o before_from(Tail(s))

\* re.split(r"[,/]| and ", text): the candidates, each a sequence of pieces.
RECURSIVE split_candidates(_, _)
split_candidates(s, current) ==
    IF s = <<>> THEN <<current>>
    ELSE IF s[1] = "," THEN <<current>> \o split_candidates(Tail(s), <<>>)
    ELSE IF Len(slash_pieces(s[1])) > 1
    THEN LET ps == slash_pieces(s[1])
         IN  <<current \o <<ps[1]>>>>
             \o [i \in 1..(Len(ps) - 2) |-> <<ps[i + 1]>>]
             \o split_candidates(Tail(s), <<Last(ps)>>)
    ELSE IF Len(s) >= 3 /\ s[1] = " " /\ lower_chunk(s[2]) = "and" /\ s[3] = " "
    THEN <<current>> \o split_candidates(SubSeq(s, 4, Len(s)), <<>>)
    ELSE split_candidates(Tail(s), Append(current, lower_chunk(s[1])))

RECURSIVE rstrip_spaces(_)
rstrip_spaces(s) == IF s # <<>> /\ Last(s) \in SpaceChunks THEN rstrip_spaces(Front(s)) ELSE s

RECURSIVE trailing_word(_)
trailing_word(s) ==
    IF s = <<>> \/ Last(s) \in SpaceChunks THEN <<>>
    ELSE Append(trailing_word(Front(s)), Last(s))

\* candidate.strip().split()[-1:]: the pieces of the last word (none if blank).
last_word(candidate) ==
    trailing_word(rstrip_spaces(SelectSeq(candidate, LAMBDA piece : piece # "")))

\* Inner loop of the second pass: `value` adds the fields it is a synonym of.
RECURSIVE add_by_synonym(_, _, _)
add_by_synonym(names, word, selected) ==
    IF names = <<>> THEN selected
    ELSE add_by_synonym(Tail(names), word,
           IF /\ Len(word) = 1
              /\ word[1] \in default_field_library[names[1]].synonyms
              /\ names[1] \notin Range(selected)
           THEN Append(selected, names[1]) ELSE selected)

RECURSIVE fields_by_candidates(_, _)
fields_by_candidates(candidates, selected) ==
    IF candidates = <<>> THEN selected
    ELSE fields_by_candidates(Tail(candidates),
           IF last_word(candidates[1]) = <<>> THEN selected
           ELSE add_by_synonym(library_names, last_word(candidates[1]), selected))

\* The names of the FieldSpecs _infer_fields selects, in order.
_infer_fields(prompt) ==
    fields_by_candidates(split_candidates(before_from(prompt), <<>>),
                         fields_by_token(library_names, prompt_tokens(prompt)))

\* `keyword in prompt_lower` for the one-word keywords of _infer_interactions.
has_keyword(prompt, keyword) == \E i \in 1..Len(prompt) : lower_chunk(prompt[i]) = keyword

\* `keyword in prompt_lower` for a keyword of two words.
has_phrase(prompt, first, second) ==
    \E i \in 1..(Len(prompt) - 2) :
        lower_chunk(prompt[i]) = first /\ prompt[i + 1] = " " /\ lower_chunk(prompt[i + 2]) = second

_infer_interactions(prompt) ==
    (IF \/ has_keyword(prompt, "scroll") \/ has_keyword(prompt, "infinite")
        \/ has_phrase(prompt, "load", "more") \/ has_phrase(prompt, "keep", "loading")
     THEN <<InteractionStep("scroll", None, 5, 400, None, Some("Auto-scroll inferred from prompt."))>>
     ELSE <<>>)
    \o (IF /\ has_keyword(prompt, "wait")
           /\ \E word \in {"appear", "render", "load"} : has_keyword(prompt, word)
        THEN <<InteractionStep("wait", None, 1, 1500, None, Some("Extra wait inferred from prompt."))>>
        ELSE <<>>)
    \o (IF has_keyword(prompt, "click") /\ has_keyword(prompt, "more")
        THEN <<InteractionStep("click", Some("text=Load more"), 1, 0, None,
                               Some("Attempt to click 'Load more'."))>>
        ELSE <<>>)

\* `max_pages or self._infer_requested_pages(prompt)`: 0 is falsy.
requested_pages_or(max_pages, prompt) ==
    IF max_pages # None /\ max_pages # Some(0) THEN max_pages
    ELSE _infer_requested_pages(prompt)

_heuristic_intent(prompt, max_pages) ==
    LET found == _extract_urls(prompt)
    IN  IntentSuggestion(
            IF found # <<>> THEN Some(found[1]) ELSE None,
            IF found # <<>> THEN Tail(found) ELSE <<>>,
            _infer_fields(prompt),
            requested_pages_or(max_pages, prompt),
            _infer_interactions(prompt),
            IF found = <<>> THEN <<"Heuristic planner could not detect a URL.">> ELSE <<>>)

(***************************************************************************)
(* planner.py: IntentSuggestion.merge, _query_intent_model, _resolve_fields *)
(***************************************************************************)
\* The dict key of an interaction: (kind, selector or "", value or "").
step_key(step) ==
    <<step.kind,
      IF step.selector = None THEN "" ELSE step.selector[1],
      IF step.value = None THEN "" ELSE step.value[1]>>

\* merged[key] = step on an insertion-ordered dict, kept as its values().
dict_put(steps, step) ==
    IF \E i \in 1..Len(steps) : step_key(steps[i]) = step_key(step)
    THEN [i \in 1..Len(steps) |-> IF step_key(steps[i]) = step_key(step) THEN step ELSE steps[i]]
    ELSE Append(steps, step)

RECURSIVE merge_steps(_, _)
merge_steps(steps, merged) ==
    IF steps = <<>> THEN merged
    ELSE merge_steps(Tail(steps), dict_put(merged, steps[1]))

\* `if other.seed_url`: neither None nor the empty string.
Truthy(url) == url # None /\ url # Some(<<>>)

\* A merge that keeps the seed of the base when it has one.
left_biased_seed(self_seed, other_seed) == IF Truthy(self_seed) THEN self_seed ELSE other_seed

\* `if other.seed_url: self.seed_url = other.seed_url`
merged_seed(self_seed, other_seed) == IF Truthy(other_seed) THEN other_seed ELSE self_seed

merge(self, other) ==
    IF other = None THEN self
    ELSE LET o == other[1]
         IN  IntentSuggestion(
                 merged_seed(self.seed_url, o.seed_url),
                 IF o.extra_urls # <<>> THEN dedup_fromkeys(self.extra_urls \o o.extra_urls)
                 ELSE self.extra_urls,
                 IF o.field_names # <<>> THEN dedup_fromkeys(self.field_names \o o.field_names)
                 ELSE self.field_names,
                 IF o.max_pages # None THEN o.max_pages ELSE self.max_pages,
                 IF o.interactions # <<>>
                 THEN merge_steps(self.interactions \o o.interactions, <<>>)
                 ELSE self.interactions,
                 self.notes \o o.notes)

\* What the collaborator does when asked: it is absent, analyze() raises, or
\* analyze() returns None or a suggestion.
IntentModel(kind, suggestion) == [kind |-> kind, suggestion |-> suggestion]

QueryResult(raised, value) == [raised |-> raised, value |-> value]

\* An analyze() exception that leaves _query_intent_model.
analyze_exception_propagates == QueryResult(TRUE, None)

\* `except Exception: ... return None`
on_analyze_exception == QueryResult(FALSE, None)

_query_intent_model(model) ==
    CASE model.kind = "missing" -> QueryResult(FALSE, None)
      [] model.kind = "raises" -> on_analyze_exception
      [] model.kind = "returns" ->
           IF model.suggestion = None THEN QueryResult(FALSE, None)
           ELSE QueryResult(FALSE,
                    Some([model.suggestion[1] EXCEPT
                            !.notes = Append(@, "Intent derived from language model analysis.")]))

\* A field library is a dict: here its items in insertion order.
LibraryEntry(key, spec) == [key |-> key, spec |-> spec]

\* default_field_library() as the planner holds it.
DefaultLibrary ==
    [i \in 1..Len(library_names) |-> LibraryEntry(library_names[i], default_field_library[library_names[i]])]

library_keys(library) == {library[i].key : i \in 1..Len(library)}

\* self._library[key]
library_item(library, key) == library[CHOOSE i \in 1..Len(library) : library[i].key = key].spec

\* self._library.get(key)
library_get(library, key) == IF key \in library_keys(library) THEN Some(library_item(library, key)) ELSE None

spec_names(specs) == {specs[i].name : i \in 1..Len(specs)}

\* An inner loop that takes the first field with the synonym, selected or not.
first_with_synonym(entries, word, resolved) ==
    LET hits == SelectSeq(entries, LAMBDA e : word \in e.spec.synonyms)
    IN  IF hits = <<>> THEN resolved ELSE Append(resolved, hits[1].spec)

\* Inner loop of _resolve_fields: the first library field that has `word`
\* as a synonym and is not resolved yet, then break.
RECURSIVE resolve_by_synonym(_, _, _)
resolve_by_synonym(entries, word, resolved) ==
    IF entries = <<>> THEN resolved
    ELSE IF word \in entries[1].spec.synonyms /\ entries[1].spec.name \notin spec_names(resolved)
    THEN Append(resolved, entries[1].spec)
    ELSE resolve_by_synonym(Tail(entries), word, resolved)

RECURSIVE resolve_loop(_, _, _)
resolve_loop(library, field_names, resolved) ==
    IF field_names = <<>> THEN resolved
    ELSE LET candidate == library_get(library, field_names[1])
         IN  resolve_loop(library, Tail(field_names),
                 IF candidate # None /\ candidate[1].name \notin spec_names(resolved)
                 THEN Append(resolved, candidate[1])
                 ELSE resolve_by_synonym(library, lower_chunk(field_names[1]), resolved))

\* The FieldSpecs _resolve_fields returns, in order.
_resolve_fields(library, field_names) == resolve_loop(library, field_names, <<>>)

\* PlannerSettings.default_fields
default_fields == <<"title", "description", "url">>

(***************************************************************************)
(* planner.py: _infer_pagination, with urllib.parse.urlparse on chunks.    *)
(***************************************************************************)
PaginationPlan(mode, parameter, template, start, step) ==
    [mode |-> mode, parameter |-> parameter, template |-> template, start |-> start, step |-> step]

\* Network locations with a "[" and no "]": urlsplit raises ValueError.
BadNetlocs == {"[bad"}

PathChunks == {"/", "/list", "/items", "/price", "/page/"}

has_scheme(url) == url # <<>> /\ url[1] \in SchemeChunks

has_netloc(url) == has_scheme(url) /\ Len(url) >= 2 /\ url[2] \notin PathChunks \cup {"?"}

\* urlparse(url) raises "Invalid IPv6 URL".
urlparse_raises(url) == has_netloc(url) /\ url[2] \in BadNetlocs

RECURSIVE until_query(_)
until_query(s) == IF s = <<>> \/ s[1] = "?" THEN <<>> ELSE <<s[1]>> \o until_query(Tail(s))

\* urlparse(url).path
url_path(url) ==
    until_query(SubSeq(url, (IF has_netloc(url) THEN 3 ELSE IF has_scheme(url) THEN 2 ELSE 1), Len(url)))

\* urlparse(url).query
url_query(url) ==
    LET head == until_query(url) IN SubSeq(url, Len(head) + 2, Len(url))

\* query.split("&")
RECURSIVE split_amp(_, _)
split_amp(s, current) ==
    IF s = <<>> THEN <<current>>
    ELSE IF s[1] = "&" THEN <<current>> \o split_amp(Tail(s), <<>>)
    ELSE split_amp(Tail(s), Append(current, s[1]))

\* `f"{candidate}=" in query`
query_contains(query, key_eq) == \E i \in 1..Len(query) : query[i] = key_eq

_extract_page_parameter(query) ==
    IF query_contains(query, "page=") THEN "page"
    ELSE IF query_contains(query, "p=") THEN "p"
    ELSE IF query_contains(query, "pg=") THEN "pg"
    ELSE "page"

\* The text after "=" of the first `key=` parameter, or None.
RECURSIVE first_value(_, _)
first_value(parameters, key) ==
    IF parameters = <<>> THEN None
    ELSE IF parameters[1] # <<>> /\ parameters[1][1] = key \o "="
    THEN Some(Tail(parameters[1]))
    ELSE first_value(Tail(parameters), key)

_extract_query_value(query, key) == first_value(split_amp(query, <<>>), key)

\* int(value or "1"), 1 on ValueError.
query_start(value) ==
    IF value = None \/ value = Some(<<>>) THEN 1
    ELSE IF Len(value[1]) = 1 /\ value[1][1] \in DigitChunks THEN int_of(value[1][1])
    ELSE 1

\* re.search(r"/page/(\d+)", path): the index of the digits, or 0.
RECURSIVE page_segment(_, _)
page_segment(path, i) ==
    IF i >= Len(path) THEN 0
    ELSE IF path[i] = "/page/" /\ path[i + 1] \in DigitChunks THEN i + 1
    ELSE page_segment(path, i + 1)

\* The value _infer_pagination returns for a URL that urlparse accepts.
_infer_pagination(url) ==
    LET query == url_query(url)
        path == url_path(url)
        at == page_segment(path, 1)
    IN  IF query_contains(query, "page=")
        THEN Some(PaginationPlan("query", Some(_extract_page_parameter(query)), None,
                     query_start(_extract_query_value(query, _extract_page_parameter(query))), 1))
        ELSE IF at # 0
        THEN Some(PaginationPlan("path", None,
                     Some(SubSeq(path, 1, at - 1) \o <<"{page}">> \o SubSeq(path, at + 1, Len(path))),
                     int_of(path[at]), 1))
        ELSE None

(***************************************************************************)
(* planner.py: PromptPlanner.plan                                          *)
(***************************************************************************)
ScrapePlan(seed_url, fields, description, extra_urls, interactions, pagination, requested_page_count, notes) ==
    [seed_url |-> seed_url, fields |-> fields, description |-> description,
     extra_urls |-> extra_urls, interactions |-> interactions, pagination |-> pagination,
     requested_page_count |-> requested_page_count, notes |-> notes]

\* The description, by the parts the code joins into one string.
_build_description(seed_url, fields, pagination, requested_pages, interactions) ==
    [extract |-> [i \in 1..Len(fields) |-> fields[i].name],
     from |-> seed_url,
     paginated |-> pagination # None,
     limit_to |-> IF requested_pages # None /\ requested_pages # Some(0) THEN requested_pages ELSE None,
     pre_actions |-> [i \in 1..Len(interactions) |-> interactions[i].kind]]

\* What a call of plan() ends with: a ScrapePlan or a ValueError.
PlanReturned(plan) == [raised |-> FALSE, error |-> "", plan |-> Some(plan)]

PlanRaised(message) == [raised |-> TRUE, error |-> message, plan |-> None]

\* An explicit cap that is not applied to the merged intent.
explicit_cap_ignored(intent, max_pages) == intent

\* `if max_pages is not None: intent.max_pages = max_pages`
explicit_cap(intent, max_pages) ==
    IF max_pages # None THEN [intent EXCEPT !.max_pages = max_pages] ELSE intent

\* `fields = self._resolve_fields(intent.field_names)`, and the defaults the
\* library holds when that is empty.
plan_fields(library, field_names) ==
    LET resolved == _resolve_fields(library, field_names)
        held == SelectSeq(default_fields, LAMBDA n : n \in library_keys(library))
    IN  IF resolved # <<>> THEN resolved
        ELSE [i \in 1..Len(held) |-> library_item(library, held[i])]

\* plan() from the merge on, given the heuristic intent and what
\* _query_intent_model returned.
plan_after_query(max_pages, heuristic, model_suggestion) ==
    LET intent == explicit_cap(merge(heuristic, model_suggestion), max_pages)
        fields == plan_fields(DefaultLibrary, intent.field_names)
    IN  IF ~Truthy(intent.seed_url)
        THEN PlanRaised("No URL found in the request. Please include at least one URL.")
        ELSE IF urlparse_raises(intent.seed_url[1])
        THEN PlanRaised("Invalid IPv6 URL")
        ELSE LET pagination == _infer_pagination(intent.seed_url[1])
             IN  PlanReturned(ScrapePlan(
                     intent.seed_url[1], fields,
                     _build_description(intent.seed_url[1], fields, pagination,
                                        intent.max_pages, intent.interactions),
                     intent.extra_urls, intent.interactions, pagination,
                     intent.max_pages, intent.notes))

(***************************************************************************)
(* The planner's inputs: prompts, explicit caps and collaborators.         *)
(***************************************************************************)
PlanPrompts ==
    { <<>>,
      <<" ", " ">>,
      <<"Get", " ", "title", " ", "and", " ", "price", " ", "from", " ",
        "https://", "example.com", "/list", ",", " ", "3", " ", "pages">>,
      <<"scrape", " ", "the", " ", "headline">>,
      <<"get", " ", "cost", " ", "from", " ", "https://", "[bad", "/list">>,
      <<"First", " ", "2", " ", "pages", " ", "of", " ", "https://", "x.com", "/items",
        "?", "q=", "rate", "&", "page=", "2">>,
      <<"links", " ", "from", " ", "https://", "x.com", "/page/", "1", " ",
        "(", "HTTPS://", "example.com", ")", ".">>,
      <<"see", " ", "https://", ".", " ", "now">>,
      <<"use", " ", "https://", " ", "please">>,
      <<"scroll", " ", "and", " ", "click", " ", "load", " ", "more", " ", "on", " ",
        "http://", "x.com", "/price">> }

PlanCaps == {None, Some(0 - 1), Some(0), Some(1), Some(2), Some(7)}

\* A click step as a collaborator returns it.
SuggestedClick == InteractionStep("click", Some("text=Load more"), 2, 0, None, None)

PlanSuggestions ==
    { IntentSuggestion(Some(<<"https://", "s.com", "/list">>), <<>>, <<"price">>, Some(7), <<>>, <<"n1">>),
      IntentSuggestion(Some(<<"example.com", "/list">>), << <<"https://", "x.com">> >>,
                       <<"cost", "nosuch", "title">>, None, <<SuggestedClick>>, <<>>),
      IntentSuggestion(None, <<>>, <<>>, Some(0), <<>>, <<>>),
      IntentSuggestion(Some(<<>>), <<>>, <<>>, None, <<>>, <<>>) }

PlanModels ==
    {IntentModel("missing", None), IntentModel("raises", None), IntentModel("returns", None)}
    \cup {IntentModel("returns", Some(sg)) : sg \in PlanSuggestions}

(***************************************************************************)
(* PromptPlanner.plan as a process: the call suspends once, at             *)
(* `await self._query_intent_model(prompt)`.                               *)
(***************************************************************************)
PlanInit ==
    /\ plan_pc = "start"
    /\ plan_prompt \in PlanPrompts
    /\ plan_max_pages \in PlanCaps
    /\ plan_model \in PlanModels
    /\ plan_heuristic = None
    /\ plan_suggestion = None
    /\ plan_outcome = None

PlanIdle ==
    /\ plan_pc = "idle"
    /\ plan_prompt = <<>>
    /\ plan_max_pages = None
    /\ plan_model = IntentModel("missing", None)
    /\ plan_heuristic = None
    /\ plan_suggestion = None
    /\ plan_outcome = None

\* The prompt check and _heuristic_intent.
PlanStart ==
    /\ plan_pc = "start"
    /\ IF prompt_blank(plan_prompt)
       THEN /\ plan_outcome' = Some(PlanRaised("Prompt cannot be empty."))
            /\ plan_pc' = "raised"
            /\ UNCHANGED plan_heuristic
       ELSE /\ plan_heuristic' = Some(_heuristic_intent(plan_prompt, plan_max_pages))
            /\ plan_pc' = "query"
            /\ UNCHANGED plan_outcome
    /\ UNCHANGED <<plan_prompt, plan_max_pages, plan_model, plan_suggestion>>
    /\ UNCHANGED not_plan_vars

\* _query_intent_model completes.
PlanQueryIntentModel ==
    /\ plan_pc = "query"
    /\ LET answer == _query_intent_model(plan_model)
       IN  IF answer.raised
           THEN /\ plan_outcome' = Some(PlanRaised("intent model failed"))
                /\ plan_pc' = "raised"
                /\ UNCHANGED plan_suggestion
           ELSE /\ plan_suggestion' = answer.value
                /\ plan_pc' = "merge"
                /\ UNCHANGED plan_outcome
    /\ UNCHANGED <<plan_prompt, plan_max_pages, plan_model, plan_heuristic>>
    /\ UNCHANGED not_plan_vars

\* The merge, the explicit cap, the seed check and the construction of the plan.
PlanFinish ==
    /\ plan_pc = "merge"
    /\ LET outcome == plan_after_query(plan_max_pages, plan_heuristic[1], plan_suggestion)
       IN  /\ plan_outcome' = Some(outcome)
           /\ plan_pc' = IF outcome.raised THEN "raised" ELSE "returned"
    /\ UNCHANGED <<plan_prompt, plan_max_pages, plan_model, plan_heuristic, plan_suggestion>>
    /\ UNCHANGED not_plan_vars

PlanNext == PlanStart \/ PlanQueryIntentModel \/ PlanFinish

(***************************************************************************)
(* Properties of the planner.                                              *)
(***************************************************************************)
plan_ended == plan_pc \in {"returned", "raised"}

plan_failed == plan_pc = "raised"

\* The prompt holds an http(s):// token: a scheme followed by a non-space.
prompt_has_url ==
    \E i \in 1..(Len(plan_prompt) - 1) :
        plan_prompt[i] \in SchemeChunks /\ plan_prompt[i + 1] \notin SpaceChunks

\* The collaborator answers with a suggestion that carries a seed URL.
suggestion_has_url ==
    /\ plan_model.kind = "returns"
    /\ plan_model.suggestion # None
    /\ Truthy(plan_model.suggestion[1].seed_url)

\* C5: a call of plan that has ended has failed exactly when the prompt is
\* empty or whitespace-only, or neither the prompt nor the collaborator's
\* suggestion supplies a seed URL; otherwise it has returned a ScrapePlan.
C5_FailsExactlyWithoutPromptOrSeed ==
    plan_ended =>
        /\ plan_failed <=> (prompt_blank(plan_prompt) \/ ~(prompt_has_url \/ suggestion_has_url))
        /\ ~plan_failed => plan_outcome[1].plan # None

\* C6: the seed_url of every returned ScrapePlan is a non-empty absolute URL:
\* it has a scheme and a network location.
C6_SeedUrlIsAbsolute ==
    plan_pc = "returned" =>
        /\ plan_outcome[1].plan[1].seed_url # <<>>
        /\ has_netloc(plan_outcome[1].plan[1].seed_url)

\* What plan ends with when planning is heuristic-only.
heuristic_only_outcome ==
    IF prompt_blank(plan_prompt) THEN PlanRaised("Prompt cannot be empty.")
    ELSE plan_after_query(plan_max_pages, _heuristic_intent(plan_prompt, plan_max_pages), None)

collaborator_fails == plan_model.kind \in {"missing", "raises"}

\* C7: when the collaborator is missing or its analyze call raises, plan sees
\* no suggestion and ends with what heuristic-only planning ends with, plan or
\* failure; the collaborator's failure is not the error of the call.
C7_CollaboratorFailureIsNoSuggestion ==
    collaborator_fails =>
        /\ plan_suggestion = None
        /\ plan_ended => plan_outcome = Some(heuristic_only_outcome)
        /\ plan_failed => plan_outcome[1].error \in
               {"Prompt cannot be empty.",
                "No URL found in the request. Please include at least one URL.",
                "Invalid IPv6 URL"}

\* A plan returned although analyze raised.
C7_Witness ==
    /\ plan_pc = "returned"
    /\ plan_model.kind = "raises"
    /\ plan_outcome[1].plan[1].seed_url = <<"https://", "example.com", "/list">>

\* C8: with an explicit page cap, the returned plan's requested_page_count is
\* the cap.
C8_ExplicitCapWins ==
    (plan_pc = "returned" /\ plan_max_pages # None) =>
        plan_outcome[1].plan[1].requested_page_count = plan_max_pages

\* "Get title and price from https://example.com/list, 3 pages"
TitlePricePrompt ==
    <<"Get", " ", "title", " ", "and", " ", "price", " ", "from", " ",
      "https://", "example.com", "/list", ",", " ", "3", " ", "pages">>

\* The call has that prompt, no explicit cap and no suggestion from a
\* collaborator: none is configured, or it raises, or it returns none.
title_price_call ==
    /\ plan_prompt = TitlePricePrompt
    /\ plan_max_pages = None
    /\ (plan_model.kind \in {"missing", "raises"} \/ plan_model.suggestion = None)

\* C16: planning "Get title and price from https://example.com/list, 3 pages"
\* with no suggestion and no cap returns a plan with seed_url
\* https://example.com/list (the comma trimmed), fields [title, price] in
\* that order, and requested_page_count 3.
C16_TitlePricePlan ==
    title_price_call =>
        /\ ~plan_failed
        /\ plan_pc = "returned" =>
              LET plan == plan_outcome[1].plan[1]
              IN  /\ plan.seed_url = <<"https://", "example.com", "/list">>
                  /\ [i \in 1..Len(plan.fields) |-> plan.fields[i].name] = <<"title", "price">>
                  /\ plan.requested_page_count = Some(3)

\* C16 witness: the call has returned, with a collaborator that returned no
\* suggestion.
C16_Witness ==
    /\ title_price_call
    /\ plan_pc = "returned"
    /\ plan_model.kind = "returns"
    /\ plan_outcome[1].plan[1].extra_urls = <<>>

\* A plan returned under cap 1 for a prompt that states 3 pages and a
\* suggestion that carries 7.
C8_Witness ==
    /\ plan_pc = "returned"
    /\ plan_max_pages = Some(1)
    /\ _infer_requested_pages(plan_prompt) = Some(3)
    /\ plan_model.suggestion # None
    /\ plan_model.suggestion[1].max_pages = Some(7)
    /\ plan_outcome[1].plan[1].requested_page_count = Some(1)

(***************************************************************************)
(* types.py: PaginationPlan.generate_urls and ScrapePlan.expand_urls, on   *)
(* URLs as chunk sequences.                                                *)
(***************************************************************************)
\* str(page_number), as a chunk.
str_of(n) ==
    CASE n = 0 -> "0" [] n = 1 -> "1" [] n = 2 -> "2" [] n = 3 -> "3" [] n = 4 -> "4"
      [] n = 5 -> "5" [] n = 6 -> "6" [] n = 7 -> "7" [] n = 8 -> "8" [] n = 9 -> "9"

\* Scheme and network location as urlunparse writes them back: urlparse
\* lower-cases the scheme.
url_origin(url) ==
    IF has_netloc(url) THEN <<lower_chunk(url[1]), url[2]>>
    ELSE IF has_scheme(url) THEN <<lower_chunk(url[1])>>
    ELSE <<>>

\* query[key] = value on dict(parse_qsl(query)): parameters are <<key=, value...>>.
query_put(parameters, parameter) ==
    IF \E i \in 1..Len(parameters) : parameters[i][1] = parameter[1]
    THEN [i \in 1..Len(parameters) |->
            IF parameters[i][1] = parameter[1] THEN parameter ELSE parameters[i]]
    ELSE Append(parameters, parameter)

RECURSIVE query_dict(_, _)
query_dict(parameters, dict) ==
    IF parameters = <<>> THEN dict
    ELSE query_dict(Tail(parameters),
                    IF parameters[1] = <<>> THEN dict ELSE query_put(dict, parameters[1]))

\* urlencode(query): the parameters joined by "&".
RECURSIVE urlencode(_)
urlencode(parameters) ==
    IF parameters = <<>> THEN <<>>
    ELSE IF Len(parameters) = 1 THEN parameters[1]
    ELSE parameters[1] \o <<"&">> \o urlencode(Tail(parameters))

_build_query_url(pagination, base_url, page_number) ==
    LET key == IF pagination.parameter # None /\ pagination.parameter # Some("")
               THEN pagination.parameter[1] ELSE "page"
        query == query_put(query_dict(split_amp(url_query(base_url), <<>>), <<>>),
                           <<key \o "=", str_of(page_number)>>)
    IN  url_origin(base_url) \o url_path(base_url) \o <<"?">> \o urlencode(query)

\* template.format(page=page_number)
format_page(template, page_number) ==
    [i \in 1..Len(template) |-> IF template[i] = "{page}" THEN str_of(page_number) ELSE template[i]]

_build_path_url(pagination, base_url, page_number) ==
    url_origin(base_url) \o format_page(pagination.template[1], page_number)
    \o (IF url_query(base_url) # <<>> THEN <<"?">> \o url_query(base_url) ELSE <<>>)

RECURSIVE generate_loop(_, _, _, _)
generate_loop(pagination, base_url, offset, limit) ==
    IF offset >= limit THEN <<>>
    ELSE LET page_number == pagination.start + offset * pagination.step
         IN  IF pagination.mode = "query" /\ pagination.parameter \notin {None, Some("")}
             THEN <<_build_query_url(pagination, base_url, page_number)>>
                  \o generate_loop(pagination, base_url, offset + 1, limit)
             ELSE IF pagination.mode = "path" /\ pagination.template \notin {None, Some(<<>>)}
             THEN <<_build_path_url(pagination, base_url, page_number)>>
                  \o generate_loop(pagination, base_url, offset + 1, limit)
             ELSE <<>>

generate_urls(pagination, base_url, limit) ==
    IF limit <= 0 THEN <<>> ELSE generate_loop(pagination, base_url, 0, limit)

\* A deduplicating loop that keeps every URL it is given, up to `limit`.
keep_repeats(listed, ordered, limit) == SubSeq(listed, 1, Min2(limit, Len(listed)))

\* The loop over extra_urls: append until `limit` URLs are listed.
RECURSIVE extend_until(_, _, _)
extend_until(listed, extra, limit) ==
    IF extra = <<>> \/ Len(listed) >= limit THEN listed
    ELSE extend_until(Append(listed, extra[1]), Tail(extra), limit)

\* The deduplicating loop: stop once `limit` URLs are kept.
RECURSIVE dedup_until(_, _, _)
dedup_until(listed, ordered, limit) ==
    IF listed = <<>> THEN ordered
    ELSE LET kept == IF listed[1] \in Range(ordered) THEN ordered ELSE Append(ordered, listed[1])
         IN  IF Len(kept) >= limit THEN kept ELSE dedup_until(Tail(listed), kept, limit)

expand_urls(plan, limit) ==
    LET bound == Max2(1, limit)
        paginated == IF plan.pagination # None
                     THEN generate_urls(plan.pagination[1], plan.seed_url, bound) ELSE <<>>
        first == IF plan.pagination # None
                 THEN SubSeq(paginated, 1, Min2(bound, Len(paginated)))
                 ELSE <<plan.seed_url>>
        ordered == dedup_until(extend_until(first, plan.extra_urls, bound), <<>>, bound)
    IN  IF ordered # <<>> THEN ordered ELSE <<plan.seed_url>>

(***************************************************************************)
(* Calls of generate_urls and expand_urls on plans of every shape the two  *)
(* dataclasses allow, for limits below, at and above 1.                    *)
(***************************************************************************)
\* Largest limit argument.
MaxLimit == 3

ExpandLimits == (0 - 1)..MaxLimit

ExpandSeeds ==
    {<<"https://", "x.com", "/items", "?", "page=", "1">>,
     <<"https://", "x.com", "/items", "?", "q=", "rate", "&", "page=", "2">>,
     <<"HTTPS://", "x.com", "/items", "?", "page=", "1">>,
     <<"https://", "x.com", "/page/", "1">>,
     <<"https://", "x.com", "/items">>}

ExpandPaginations ==
    {PaginationPlan("query", Some("page"), None, start, step) : start \in {1, 2}, step \in {0, 1, 2}}
    \cup {PaginationPlan("query", Some("p"), None, 1, 1),
          PaginationPlan("query", None, None, 1, 1),
          PaginationPlan("query", Some(""), None, 1, 1),
          PaginationPlan("path", None, Some(<<"/page/", "{page}">>), 1, 1),
          PaginationPlan("path", None, None, 1, 1)}

ExpandExtras ==
    {<<>>,
     << <<"https://", "y.com", "/list">> >>,
     << <<"https://", "x.com", "/items", "?", "page=", "2">>, <<"https://", "y.com", "/list">> >>,
     << <<"https://", "y.com", "/list">>, <<"https://", "y.com", "/list">>, <<"https://", "x.com", "/items">> >>}

ExpandPlans ==
    {ScrapePlan(seed_url, <<default_field_library["title"]>>, <<>>, extra_urls, <<>>, pagination, None, <<>>) :
        seed_url \in ExpandSeeds, extra_urls \in ExpandExtras,
        pagination \in {None} \cup {Some(p) : p \in ExpandPaginations}}

ExpandInit ==
    /\ exp_pc = "start"
    /\ exp_plan \in ExpandPlans
    /\ exp_limit \in ExpandLimits
    /\ exp_generated = None
    /\ exp_regenerated = None
    /\ exp_urls = None

ExpandIdle ==
    /\ exp_pc = "idle"
    /\ exp_plan = None
    /\ exp_limit = 0
    /\ exp_generated = None
    /\ exp_regenerated = None
    /\ exp_urls = None

\* plan.pagination.generate_urls(plan.seed_url, limit)
GenerateUrls ==
    /\ exp_pc = "start"
    /\ exp_plan.pagination # None
    /\ exp_generated' = Some(generate_urls(exp_plan.pagination[1], exp_plan.seed_url, exp_limit))
    /\ exp_pc' = "generated"
    /\ UNCHANGED <<exp_plan, exp_limit, exp_regenerated, exp_urls>>
    /\ UNCHANGED not_exp_vars

\* The same call once more.
GenerateUrlsAgain ==
    /\ exp_pc = "generated"
    /\ exp_regenerated' = Some(generate_urls(exp_plan.pagination[1], exp_plan.seed_url, exp_limit))
    /\ exp_pc' = "regenerated"
    /\ UNCHANGED <<exp_plan, exp_limit, exp_generated, exp_urls>>
    /\ UNCHANGED not_exp_vars

\* plan.expand_urls(limit)
ExpandUrls ==
    /\ exp_pc = "start"
    /\ exp_urls' = Some(expand_urls(exp_plan, exp_limit))
    /\ exp_pc' = "expanded"
    /\ UNCHANGED <<exp_plan, exp_limit, exp_generated, exp_regenerated>>
    /\ UNCHANGED not_exp_vars

ExpandNext == GenerateUrls \/ GenerateUrlsAgain \/ ExpandUrls

\* The URLs expand_urls draws from, in order: the generated ones, or the
\* seed URL without pagination, then the extra URLs.
expand_sources ==
    (IF exp_plan.pagination = None THEN <<exp_plan.seed_url>>
     ELSE generate_urls(exp_plan.pagination[1], exp_plan.seed_url, Max2(1, exp_limit)))
    \o exp_plan.extra_urls

\* The list is not empty, repeats no URL, has at most max(1, limit) entries
\* and keeps the order of the sources: generated URLs (or the seed URL)
\* before extra URLs, each in its original order.
expanded_in_order ==
    LET listed == exp_urls[1]
    IN  /\ listed # <<>>
        /\ \A j, k \in 1..Len(listed) : listed[j] = listed[k] => j = k
        /\ Len(listed) <= Max2(1, exp_limit)
        /\ expand_sources # <<>> =>
              /\ \A k \in 1..Len(listed) : listed[k] \in Range(expand_sources)
              /\ \A j, k \in 1..Len(listed) :
                    j < k => FirstIndex(expand_sources, listed[j]) < FirstIndex(expand_sources, listed[k])
              /\ listed[1] = expand_sources[1]

\* C14 (as stated): for every plan and limit, expand_urls returns a list that
\* is not empty, has no duplicate and at most max(1, limit) entries, lists
\* generated URLs (or the seed URL) before extra URLs in their order, and
\* contains the seed URL.
C14_ExpandedContainsSeed ==
    exp_pc = "expanded" =>
        /\ expanded_in_order
        /\ exp_plan.seed_url \in Range(exp_urls[1])

\* C14 (amended): the same, but the seed URL is promised only as the first
\* entry when no pagination is configured, and as the only entry when
\* pagination and extra URLs give no URL.
C14_ExpandedFallsBackToSeed ==
    exp_pc = "expanded" =>
        /\ expanded_in_order
        /\ exp_plan.pagination = None => exp_urls[1][1] = exp_plan.seed_url
        /\ expand_sources = <<>> => exp_urls[1] = <<exp_plan.seed_url>>

\* C14 witness: a plan without pagination whose three extra URLs hold a
\* repeat and the seed URL, expanded with limit 3: the seed URL, then the
\* one new extra URL.
C14_Witness ==
    /\ exp_pc = "expanded"
    /\ exp_plan.pagination = None
    /\ exp_limit = 3
    /\ Len(exp_plan.extra_urls) = 3
    /\ exp_plan.seed_url \in Range(exp_plan.extra_urls)
    /\ exp_urls[1] = <<exp_plan.seed_url, exp_plan.extra_urls[1]>>

\* A plan whose pagination generates URLs, expanded with limit 3 after a
\* seed URL written with an upper-case scheme.
C14_PaginatedExample ==
    /\ exp_pc = "expanded"
    /\ exp_plan.pagination # None
    /\ exp_limit = 3
    /\ Len(exp_urls[1]) = 3
    /\ exp_plan.seed_url \notin Range(exp_urls[1])

\* The values the query of the URL gives to the parameter, in order.
RECURSIVE values_of(_, _)
values_of(url, key_eq) ==
    IF Len(url) < 2 THEN <<>>
    ELSE IF url[1] = key_eq THEN <<url[2]>> \o values_of(Tail(url), key_eq)
    ELSE values_of(Tail(url), key_eq)

generate_called == exp_pc \in {"generated", "regenerated"}

\* The page parameter of the k-th URL has the single value
\* start + (k - 1) * step, for every k up to n, and there are n URLs.
pages_counted(listed, pagination, key_eq, n) ==
    /\ Len(listed) = n
    /\ \A k \in 1..Len(listed) :
          values_of(listed[k], key_eq) = <<str_of(pagination.start + (k - 1) * pagination.step)>>

\* C13 (as stated): generate_urls returns the empty list for limit <= 0; for
\* limit n > 0 in query mode it returns n URLs whose page parameter counts
\* start, start + step, ..., start + (n - 1) * step; a second call with the
\* same arguments returns the same list.
C13_QueryModeGeneratesLimitUrls ==
    generate_called =>
        LET pagination == exp_plan.pagination[1]
            key == IF pagination.parameter \in {None, Some("")} THEN "page" ELSE pagination.parameter[1]
        IN  /\ exp_limit <= 0 => exp_generated[1] = <<>>
            /\ (exp_limit > 0 /\ pagination.mode = "query") =>
                  pages_counted(exp_generated[1], pagination, key \o "=", exp_limit)
            /\ exp_pc = "regenerated" => exp_regenerated = exp_generated

\* What generate_urls does: the same for query mode with a non-empty
\* parameter; in query mode with no parameter, or with the empty one, the loop
\* breaks at once and the list is empty, although _build_query_url would
\* write such a plan's page number under "page".
C13_QueryModeWithParameter ==
    generate_called =>
        LET pagination == exp_plan.pagination[1]
        IN  /\ exp_limit <= 0 => exp_generated[1] = <<>>
            /\ (exp_limit > 0 /\ pagination.mode = "query") =>
                  IF pagination.parameter \in {None, Some("")}
                  THEN exp_generated[1] = <<>>
                  ELSE pages_counted(exp_generated[1], pagination,
                                     pagination.parameter[1] \o "=", exp_limit)
            /\ exp_pc = "regenerated" => exp_regenerated = exp_generated

\* The example of C13, called twice.
C13_Example ==
    /\ exp_pc = "regenerated"
    /\ exp_plan.pagination = Some(PaginationPlan("query", Some("page"), None, 1, 1))
    /\ exp_plan.seed_url = <<"https://", "x.com", "/items", "?", "page=", "1">>
    /\ exp_limit = 3
    /\ exp_regenerated[1] = << <<"https://", "x.com", "/items", "?", "page=", "1">>,
                               <<"https://", "x.com", "/items", "?", "page=", "2">>,
                               <<"https://", "x.com", "/items", "?", "page=", "3">> >>

(***************************************************************************)
(* analyzer.py: PageAnalyzer.extract_items on the documents of the model.  *)
(* A document is known by the elements of its largest repeating group and  *)
(* by what field extraction finds in each of them.                         *)
(***************************************************************************)
\* Two list entries, each with a title and a link.
ListDoc == "<li><b class=title>A</b><a class=link href=/x>x</a></li><li>...a...y...</li>"

\* No repeating group and nothing that scores for any field.
PlainDoc == "<p></p>"

\* Two list entries whose link is href="http://[".
BadHrefDoc == "<li><b class=title>A</b><a class=link href=http://[>x</a></li><li>...</li>"

\* Two list entries: the first has a title and a link, the second a title.
SparseDoc == "<li><b class=title>B</b><a class=link href=/x>x</a></li><li><b class=title>A B</b></li>"

RunDocs == {ListDoc, PlainDoc, BadHrefDoc, SparseDoc}

\* For each element of the group, the stripped value each field extracts.
doc_elements(html) ==
    CASE html = ListDoc -> <<[title |-> <<"A">>, url |-> <<"x">>], [title |-> <<"a">>, url |-> <<"y">>]>>
      [] html = BadHrefDoc -> <<[title |-> <<"A">>], [title |-> <<"B">>]>>
      [] html = SparseDoc -> <<[title |-> <<"B">>, url |-> <<"x">>], [title |-> <<"A", " ", "B">>]>>
      [] OTHER -> <<>>

\* urljoin(base_url, href) raises ValueError for the href of this document
\* when a link field is extracted.
urljoin_raises(html, fields) ==
    html = BadHrefDoc /\ \E i \in 1..Len(fields) : fields[i].value_type = "link"

\* _extract_from_node: the record of the planned fields that have a value.
_extract_from_node(element, fields) ==
    [n \in {m \in {fields[i].name : i \in 1..Len(fields)} \cap DOMAIN element : element[m] # <<>>} |-> element[n]]

Extracted(items, messages) == [raised |-> FALSE, error |-> "", items |-> items, warnings |-> messages]

ExtractRaised(message) == [raised |-> TRUE, error |-> message, items |-> <<>>, warnings |-> <<>>]

\* A parsed document: its elements in document order, each with its tag,
\* its class list, its role and what field extraction finds in it (field
\* name to value, the empty value for a field that gives None or ""), and
\* what field extraction finds in the document as a whole.
Element(tag, classes, role, found) == [tag |-> tag, classes |-> classes, role |-> role, found |-> found]

Document(elements, whole) == [elements |-> elements, whole |-> whole]

\* Order of the class names of the model's documents, for sorted().
ClassRank(class) == CASE class = "a" -> 1 [] class = "b" -> 2 [] class = "card" -> 3

\* PageAnalyzer._signature
element_signature(element) ==
    LET classes == SortSeq(element.classes, LAMBDA x, y : ClassRank(x) < ClassRank(y))
    IN  IF classes = <<>> /\ element.role = "" /\ element.tag \notin {"article", "li", "tr"}
        THEN None
        ELSE Some(<<element.tag, classes, element.role>>)

\* signature_map.setdefault(signature, []).append(element), over the
\* elements in turn: the lists of the dict in insertion order.
RECURSIVE signature_map(_)
signature_map(elements) ==
    IF elements = <<>> THEN <<>>
    ELSE LET map == signature_map(Front(elements))
             signature == element_signature(Last(elements))
         IN  IF signature = None THEN map
             ELSE IF \E k \in 1..Len(map) : element_signature(map[k][1]) = signature
             THEN [k \in 1..Len(map) |->
                     IF element_signature(map[k][1]) = signature THEN Append(map[k], Last(elements)) ELSE map[k]]
             ELSE Append(map, <<Last(elements)>>)

\* Groups left in the order of the dict.
in_dict_order(groups) == groups

\* groups.sort(key=len, reverse=True): stable, longest first.
RECURSIVE sort_by_len(_)
sort_by_len(groups) ==
    IF groups = <<>> THEN <<>>
    ELSE LET sorted == sort_by_len(Front(groups))
             at == Cardinality({k \in 1..Len(sorted) : Len(sorted[k]) >= Len(Last(groups))})
         IN  SubSeq(sorted, 1, at) \o <<Last(groups)>> \o SubSeq(sorted, at + 1, Len(sorted))

_find_repeating_groups(elements) ==
    LET found == SelectSeq(elements, LAMBDA e : e.tag \in {"article", "li", "tr", "section", "div"})
        groups == SelectSeq(signature_map(found), LAMBDA g : Len(g) >= 2)
        sorted == sort_by_len(groups)
    IN  SubSeq(sorted, 1, Min2(5, Len(sorted)))

\* The non-empty records of a group.
group_items(group, fields) ==
    SelectSeq([i \in 1..Len(group) |-> _extract_from_node(group[i].found, fields)],
              LAMBDA record : DOMAIN record # {})

\* `for group in candidate_groups`: the items of the first group that has any.
RECURSIVE first_items(_, _)
first_items(groups, fields) ==
    IF groups = <<>> THEN <<>>
    ELSE IF group_items(groups[1], fields) # <<>> THEN group_items(groups[1], fields)
    ELSE first_items(Tail(groups), fields)

\* extract_items once the document is parsed.
extract_items_parsed(document, fields) ==
    LET candidate_groups == _find_repeating_groups(document.elements)
        item == _extract_from_node(document.whole, fields)
        single == IF DOMAIN item # {} THEN <<item>> ELSE <<>>
    IN  IF candidate_groups = <<>>
        THEN Extracted(single, <<"No repeating layout detected; falling back to whole-page extraction.">>)
        ELSE IF first_items(candidate_groups, fields) # <<>>
        THEN Extracted(first_items(candidate_groups, fields), <<>>)
        ELSE Extracted(single, <<"Structured clusters did not yield data; using single-shot extraction.">>)

\* BeautifulSoup(html, "html.parser") on the documents of the engine's
\* pages: list entries, and nothing in the whole document that the entries
\* do not have.
parse(html) ==
    Document([i \in 1..Len(doc_elements(html)) |-> Element("li", <<>>, "", doc_elements(html)[i])], <<>>)

extract_items(html, fields) ==
    IF urljoin_raises(html, fields) THEN ExtractRaised("Invalid IPv6 URL")
    ELSE extract_items_parsed(parse(html), fields)

(***************************************************************************)
(* engine.py: ScrapingEngine.run.  The call suspends at the planner and at *)
(* fetch_all; the page loop and the refiner run without suspension.        *)
(***************************************************************************)
\* ScrapingEngineConfig.default_page_limit
default_page_limit == 1

\* ScrapingEngineConfig.max_page_limit
max_page_limit == 5

\* The requested page count, or the default, without the clamp.
requested_or_default(plan) ==
    IF plan.requested_page_count \notin {None, Some(0)}
    THEN plan.requested_page_count[1] ELSE default_page_limit

_resolve_page_limit(plan) ==
    LET requested == IF plan.requested_page_count \notin {None, Some(0)}
                     THEN plan.requested_page_count[1] ELSE default_page_limit
    IN  Min2(Max2(1, requested), max_page_limit)

\* A whole call of PromptPlanner.plan.
PromptPlanner_plan(prompt, max_pages, model) ==
    IF prompt_blank(prompt) THEN PlanRaised("Prompt cannot be empty.")
    ELSE IF _query_intent_model(model).raised THEN PlanRaised("intent model failed")
    ELSE plan_after_query(max_pages, _heuristic_intent(prompt, max_pages),
                          _query_intent_model(model).value)

\* A message about a page: f"{page_url}: {message}".
page_message(page_url, message) == page_url \o <<": ", message>>

\* `page.final_url or page.url`
page_url_of(page) == IF page.final_url # <<>> THEN page.final_url ELSE page.url

\* The pages fetch_all can return for one URL: a response with a document or
\* an empty body, possibly after a redirect; an error status; an exception.
RunPageShapes(url) ==
    {PageContent(url, final_url, Some(200), html, None) :
        final_url \in {url, url \o <<"/moved">>}, html \in RunDocs \cup {""}}
    \cup {PageContent(url, final_url, Some(404), "<err>", Some("HTTP 404: Not Found")) :
             final_url \in {url, url \o <<"/moved">>}}
    \cup {PageContent(url, url, None, "", Some(m)) :
             m \in ExcMsgs \cup {"timeout: Timeout 20000ms exceeded."}}

\* The pages of the list that take every shape; the later ones are a
\* response with a document or an error status after a redirect.
MaxVariedPages == 1

RunLaterPageShapes(url) ==
    {PageContent(url, url, Some(200), ListDoc, None),
     PageContent(url, url \o <<"/moved">>, Some(404), "<err>", Some("HTTP 404: Not Found"))}

\* The page lists for the URLs from index i on.
RECURSIVE page_lists_from(_, _)
page_lists_from(url_list, i) ==
    IF i > Len(url_list) THEN {<<>>}
    ELSE {<<page>> \o rest :
             page \in (IF i <= MaxVariedPages THEN RunPageShapes(url_list[i])
                       ELSE RunLaterPageShapes(url_list[i])),
             rest \in page_lists_from(url_list, i + 1)}

\* fetch_all returns one page per URL of its deduplicated input, in order.
RunPageLists(url_list) == page_lists_from(url_list, 1)

\* The warnings and metadata fetch_all returns with the pages.
FetchReports ==
    {[warnings |-> <<>>, metadata |-> [transport |-> "browser", fallback_urls |-> None]],
     [warnings |-> << <<"Playwright is unavailable; falling back to HTTP fetching.">> >>,
      metadata |-> [transport |-> "http", fallback_urls |-> None]]}

RunRaised(message) == [raised |-> TRUE, error |-> message]

ScrapeOutcome(plan, items, messages, error_list, sources, stats) ==
    [raised |-> FALSE, plan |-> plan, items |-> items, warnings |-> messages,
     errors |-> error_list, source_urls |-> sources, stats |-> stats]

RunInit ==
    /\ run_pc = "plan"
    /\ run_prompt \in PlanPrompts
    /\ run_max_pages \in PlanCaps
    /\ run_model \in PlanModels
    /\ run_plan = None
    /\ run_urls = <<>>
    /\ run_warnings = <<>>
    /\ run_pages = <<>>
    /\ run_metadata = None
    /\ run_i = 0
    /\ run_items = <<>>
    /\ run_errors = <<>>
    /\ run_source_urls = <<>>
    /\ run_outcome = None
    /\ run_analyzed = <<>>
    /\ run_item_pages = <<>>
    /\ run_result = None
    /\ run_effective_page_limit = 0

RunIdle ==
    /\ run_pc = "idle"
    /\ run_prompt = <<>>
    /\ run_max_pages = None
    /\ run_model = IntentModel("missing", None)
    /\ run_plan = None
    /\ run_urls = <<>>
    /\ run_warnings = <<>>
    /\ run_pages = <<>>
    /\ run_metadata = None
    /\ run_i = 0
    /\ run_items = <<>>
    /\ run_errors = <<>>
    /\ run_source_urls = <<>>
    /\ run_outcome = None
    /\ run_analyzed = <<>>
    /\ run_item_pages = <<>>
    /\ run_result = None
    /\ run_effective_page_limit = 0

\* The planner returns or raises; then the page limit, the URLs and the
\* first warnings.
RunPlan ==
    /\ run_pc = "plan"
    /\ LET planned == PromptPlanner_plan(run_prompt, run_max_pages, run_model)
       IN  IF planned.raised
           THEN /\ run_outcome' = Some(RunRaised(planned.error))
                /\ run_pc' = "raised"
                /\ UNCHANGED <<run_plan, run_urls, run_warnings, run_effective_page_limit>>
           ELSE LET plan == planned.plan[1]
                    effective_page_limit == _resolve_page_limit(plan)
                IN  /\ run_plan' = Some(plan)
                    /\ run_effective_page_limit' = effective_page_limit
                    /\ run_urls' = expand_urls(plan, effective_page_limit)
                    /\ run_warnings' =
                         [i \in 1..Len(plan.notes) |-> <<plan.notes[i]>>]
                         \o (IF /\ plan.pagination = None
                                /\ effective_page_limit > 1
                                /\ plan.extra_urls = <<>>
                             THEN << <<"Pagination requested but no pagination pattern was detected; scraping only the seed URL.">> >>
                             ELSE <<>>)
                    /\ run_pc' = "fetch"
                    /\ UNCHANGED run_outcome
    /\ UNCHANGED <<run_prompt, run_max_pages, run_model, run_pages, run_metadata, run_i,
                   run_items, run_errors, run_source_urls, run_analyzed, run_item_pages,
                   run_result>>
    /\ UNCHANGED not_run_vars

\* fetch_all returns.
RunFetch ==
    /\ run_pc = "fetch"
    /\ \E page_list \in RunPageLists(run_urls), report \in FetchReports :
          /\ run_pages' = page_list
          /\ run_warnings' = run_warnings \o report.warnings
          /\ run_metadata' = Some(report.metadata)
    /\ run_i' = 1
    /\ run_pc' = "loop"
    /\ UNCHANGED <<run_prompt, run_max_pages, run_model, run_plan, run_urls, run_items,
                   run_errors, run_source_urls, run_outcome, run_analyzed, run_item_pages>>
    /\ UNCHANGED <<run_result, run_effective_page_limit>>
    /\ UNCHANGED not_run_vars

\* One iteration of `for page in pages`.
RunPage ==
    /\ run_pc = "loop"
    /\ run_i <= Len(run_pages)
    /\ LET page == run_pages[run_i]
           page_url == page_url_of(page)
           result == extract_items(page.html, run_plan[1].fields)
       IN  /\ run_source_urls' = Append(run_source_urls, page_url)
           /\ IF ~success(page)
              THEN /\ run_errors' = Append(run_errors,
                          page_message(page_url, IF ErrorFalsy(page.error) THEN "unknown error"
                                                 ELSE page.error[1]))
                   /\ run_i' = run_i + 1
                   /\ UNCHANGED <<run_pc, run_items, run_warnings, run_outcome, run_analyzed,
                                  run_item_pages>>
              ELSE /\ run_analyzed' = Append(run_analyzed, run_i)
                   /\ IF result.raised
                      THEN /\ run_outcome' = Some(RunRaised(result.error))
                           /\ run_pc' = "raised"
                           /\ UNCHANGED <<run_i, run_items, run_warnings, run_errors, run_item_pages>>
                      ELSE /\ run_items' = run_items \o result.items
                           /\ run_item_pages' = run_item_pages \o [k \in 1..Len(result.items) |-> run_i]
                           /\ run_warnings' =
                                run_warnings
                                \o (IF result.items = <<>>
                                    THEN <<page_message(page_url, "no matching data located.")>>
                                    ELSE <<>>)
                                \o [k \in 1..Len(result.warnings) |-> page_message(page_url, result.warnings[k])]
                           /\ run_i' = run_i + 1
                           /\ UNCHANGED <<run_pc, run_errors, run_outcome>>
    /\ UNCHANGED <<run_prompt, run_max_pages, run_model, run_plan, run_urls, run_pages, run_metadata>>
    /\ UNCHANGED <<run_result, run_effective_page_limit>>
    /\ UNCHANGED not_run_vars

\* After the loop: the refiner, the stats and the ScrapeOutcome.
RunReturn ==
    /\ run_pc = "loop"
    /\ run_i > Len(run_pages)
    /\ LET cleaning == refine(run_items, run_plan[1].fields)
       IN  run_outcome' = Some(ScrapeOutcome(
               run_plan[1], cleaning.cleaned, run_warnings \o cleaning.warnings, run_errors,
               run_source_urls, [fetch |-> run_metadata[1], cleaning |-> cleaning.stats]))
    /\ run_pc' = "returned"
    /\ UNCHANGED <<run_prompt, run_max_pages, run_model, run_plan, run_urls, run_warnings,
                   run_pages, run_metadata, run_i, run_items, run_errors, run_source_urls,
                   run_analyzed, run_item_pages>>
    /\ UNCHANGED <<run_result, run_effective_page_limit>>
    /\ UNCHANGED not_run_vars

\* ScrapePlan.summary: the plan with the names of its fields; the to_dict of
\* an interaction and of the pagination lists the attributes as they are.
summary(plan) == [plan EXCEPT !.fields = [i \in 1..Len(plan.fields) |-> plan.fields[i].name]]

\* The total of a coverage taken before cleaning.
records_before_cleaning(outcome) == outcome.stats.cleaning.records_before_cleaning

\* `total = len(self.items)`
coverage_total(outcome) == Len(outcome.items)

\* `sum(1 for item in self.items if item.get(field.name))`
coverage_hits(outcome, name) ==
    Cardinality({j \in 1..Len(outcome.items) : dict_get(outcome.items[j], name) # <<>>})

\* round(hits / total, 3), in thousandths.  The nearest thousandth; no
\* quotient of the model lies halfway between two (that takes a total that
\* is a multiple of 16).
round3(hits, total) == (2000 * hits + total) \div (2 * total)

\* The `coverage` dict of ScrapeOutcome.to_dict, in thousandths.
field_coverage(outcome) ==
    LET total == coverage_total(outcome)
    IN  [name \in {outcome.plan.fields[i].name : i \in 1..Len(outcome.plan.fields)} |->
            IF total # 0 THEN round3(coverage_hits(outcome, name), total) ELSE 0]

\* ScrapeOutcome.to_dict: metadata is item_count, source_urls and
\* field_coverage, updated with the keys of stats (fetch, cleaning).
to_dict(outcome) ==
    [plan |-> summary(outcome.plan),
     items |-> outcome.items,
     warnings |-> outcome.warnings,
     errors |-> outcome.errors,
     metadata |-> [item_count |-> Len(outcome.items),
                   source_urls |-> outcome.source_urls,
                   field_coverage |-> field_coverage(outcome),
                   fetch |-> outcome.stats.fetch,
                   cleaning |-> outcome.stats.cleaning]]

\* main.py, submit_job: the outcome run returned is serialized.
RunSerialize ==
    /\ run_pc = "returned"
    /\ run_result' = Some(to_dict(run_outcome[1]))
    /\ run_pc' = "serialized"
    /\ UNCHANGED <<run_prompt, run_max_pages, run_model, run_plan, run_urls, run_warnings,
                   run_pages, run_metadata, run_i, run_items, run_errors, run_source_urls,
                   run_outcome, run_analyzed, run_item_pages, run_effective_page_limit>>
    /\ UNCHANGED not_run_vars

RunNext == RunPlan \/ RunFetch \/ RunPage \/ RunReturn \/ RunSerialize

(***************************************************************************)
(* Properties of the engine's run.                                         *)
(***************************************************************************)
\* The page is not a success: its error is set or its html is empty.
not_a_success(page) == (page.error # None /\ page.error # Some("")) \/ page.html = ""

\* The pages the loop has handled completely.
handled_pages == {j \in 1..Len(run_pages) : j < run_i}

\* The entries of `errors` that are "<url>: <text>" for the URL of page j.
error_entries(j) ==
    LET u == page_url_of(run_pages[j])
    IN  {k \in 1..Len(run_errors) :
            /\ Len(run_errors[k]) = Len(u) + 2
            /\ SubSeq(run_errors[k], 1, Len(u) + 1) = u \o <<": ">>
            /\ (run_pages[j].error \notin {None, Some("")}
                   => Last(run_errors[k]) = run_pages[j].error[1])}

\* C3: a handled page that is not a success was not given to the analyzer, has
\* exactly one "<url>: <error>" entry in errors and is the page of no item;
\* errors holds nothing else; the run does not stop at such a page, and when
\* it returns every page has been handled and the outcome carries the errors.
C3_FailedPagesSkippedAndReported ==
    /\ \A j \in handled_pages :
          not_a_success(run_pages[j]) =>
              /\ j \notin Range(run_analyzed)
              /\ Cardinality(error_entries(j)) = 1
              /\ j \notin Range(run_item_pages)
    /\ Len(run_errors) = Cardinality({j \in handled_pages : not_a_success(run_pages[j])})
    /\ (run_pc = "raised" /\ run_plan # None) => ~not_a_success(run_pages[run_i])
    /\ run_pc = "returned" =>
          /\ handled_pages = 1..Len(run_pages)
          /\ run_outcome[1].errors = run_errors
          /\ \A j \in handled_pages : ~not_a_success(run_pages[j]) => j \in Range(run_analyzed)

\* A run that returned after a failed first page and a second page with items.
C3_Witness ==
    /\ run_pc = "returned"
    /\ Len(run_pages) = 2
    /\ not_a_success(run_pages[1])
    /\ run_pages[1].final_url # run_pages[1].url
    /\ Len(run_outcome[1].errors) = 1
    /\ 2 \in Range(run_item_pages)
    /\ run_outcome[1].items # <<>>

\* C4: run raises only when the planner raised: once the plan is obtained,
\* run ends with a ScrapeOutcome.
C4_OnlyPlanValidationAborts == run_pc = "raised" => run_plan = None

\* clamp(value, low, high)
clamp(value, low, high) == IF value < low THEN low ELSE IF value > high THEN high ELSE value

\* C15: once the plan is obtained, the effective page limit is
\* clamp(requested_page_count if set, else the default, 1, max_page_limit); it
\* lies between 1 and max_page_limit, and the URLs handed to the collector,
\* and the pages it returns, are at most that many.
C15_PageLimitClamped ==
    run_plan # None =>
        LET requested == run_plan[1].requested_page_count
            wanted == IF requested # None THEN requested[1] ELSE default_page_limit
        IN  /\ run_effective_page_limit = clamp(wanted, 1, max_page_limit)
            /\ run_effective_page_limit >= 1
            /\ run_effective_page_limit <= max_page_limit
            /\ run_urls # <<>>
            /\ Len(run_urls) <= run_effective_page_limit
            /\ Len(run_pages) <= run_effective_page_limit

\* C15 witness: 7 pages were requested of a seed URL with pagination, and
\* max_page_limit URLs were handed to the collector.
C15_Witness ==
    /\ run_pc = "loop"
    /\ run_plan[1].requested_page_count = Some(7)
    /\ run_plan[1].pagination # None
    /\ Len(run_urls) = max_page_limit
    /\ Len(run_pages) = max_page_limit

\* Runs with a requested page count of 0 and below 0: one URL.
C15_ZeroExample ==
    /\ run_pc = "loop"
    /\ run_plan[1].requested_page_count = Some(0)
    /\ Len(run_urls) = 1

C15_NegativeExample ==
    /\ run_pc = "loop"
    /\ run_plan[1].requested_page_count = Some(0 - 1)
    /\ run_plan[1].pagination # None
    /\ Len(run_urls) = 1

\* The planned field names of the serialized outcome.
planned_names == Range(run_result[1].plan.fields)

\* The serialized items that hold a non-empty value for the field.
records_with(name) ==
    {j \in 1..Len(run_result[1].items) :
        name \in DOMAIN run_result[1].items[j] /\ Len(run_result[1].items[j][name]) > 0}

\* C12: in the serialized outcome, field_coverage has one entry per planned
\* field; it is hits/total over the outcome's items to the nearest thousandth,
\* exactly 1.0 for a field with a non-empty value in every item, exactly 0.0
\* for a field with a value in none, and 0.0 for every field without items.
C12_CoverageIsHitsOverTotal ==
    run_pc = "serialized" =>
        LET coverage == run_result[1].metadata.field_coverage
            total == Len(run_result[1].items)
        IN  /\ run_result[1].items = run_outcome[1].items
            /\ run_result[1].metadata.item_count = total
            /\ DOMAIN coverage = planned_names
            /\ \A name \in planned_names :
                  LET hits == Cardinality(records_with(name))
                  IN  /\ (total > 0 /\ hits = total) => coverage[name] = 1000
                      /\ hits = 0 => coverage[name] = 0
                      /\ total = 0 => coverage[name] = 0
                      /\ total > 0 =>
                            /\ 2 * (coverage[name] * total - 1000 * hits) <= total
                            /\ 2 * (1000 * hits - coverage[name] * total) <= total

\* C12 witness: a serialized outcome of three items after a duplicate was
\* removed, with a field in every item, a field in two of them and a field in
\* none.
C12_Witness ==
    /\ run_pc = "serialized"
    /\ Len(run_result[1].items) = 3
    /\ run_result[1].metadata.cleaning.duplicates_removed >= 1
    /\ \E name \in planned_names : run_result[1].metadata.field_coverage[name] = 1000
    /\ \E name \in planned_names : run_result[1].metadata.field_coverage[name] = 667
    /\ \E name \in planned_names : run_result[1].metadata.field_coverage[name] = 0

\* C12 witness for an outcome without items: every planned field has
\* coverage 0.0.
C12_WitnessNoItems ==
    /\ run_pc = "serialized"
    /\ run_result[1].items = <<>>
    /\ planned_names # {}
    /\ run_pages # <<>>

\* The normalized records of the input.
normalized_input == [i \in 1..Len(refine_items) |-> normalize_item(refine_items[i])]

\* The signatures of normalized records.
signatures_of(records) == [i \in 1..Len(records) |-> _signature(records[i], refine_fields)]

\* The indexes of the signatures that no earlier index has.
first_occurrences(signatures) == {i \in DOMAIN signatures : \A j \in 1..(i - 1) : signatures[j] # signatures[i]}

\* C29: for a non-empty input, records_before_cleaning is the length of the
\* input and equals records_after_cleaning + duplicates_removed; the cleaned
\* list is the normalized records whose signature no earlier record has, in
\* input order; field_population has one count per planned field, the
\* number of cleaned records with a non-empty value for it, between 0 and
\* records_after_cleaning; and the warnings are those of the planned fields
\* whose count is 0, in plan order.
C29_RefineConservesRecords ==
    (refined # None /\ refine_items # <<>>) =>
        LET result == refined[1]
            stats == result.stats
            normalized == normalized_input
            kept == first_occurrences(signatures_of(normalized))
            counts == [i \in 1..Len(refine_fields) |->
                         Cardinality({j \in 1..Len(result.cleaned) :
                             /\ refine_fields[i].name \in DOMAIN result.cleaned[j]
                             /\ result.cleaned[j][refine_fields[i].name] # <<>>})]
            empty_fields == SelectSeq([i \in 1..Len(refine_fields) |-> <<refine_fields[i].name, counts[i]>>],
                                      LAMBDA pair : pair[2] = 0)
        IN  /\ stats.records_before_cleaning = Len(refine_items)
            /\ stats.records_before_cleaning = stats.records_after_cleaning + stats.duplicates_removed
            /\ stats.records_after_cleaning = Len(result.cleaned)
            /\ result.cleaned = select_at(normalized, kept)
            /\ stats.duplicates_removed = Len(refine_items) - Cardinality(kept)
            /\ Len(stats.field_population) = Len(refine_fields)
            /\ \A i \in 1..Len(refine_fields) :
                  /\ stats.field_population[i][1] = refine_fields[i].name
                  /\ stats.field_population[i][2] = counts[i]
                  /\ stats.field_population[i][2] \in 0..stats.records_after_cleaning
            /\ Len(result.warnings) = Len(empty_fields)
            /\ \A k \in 1..Len(empty_fields) : result.warnings[k][1] = empty_fields[k][1]

\* C29 witness: of three records the second repeats the first up to case
\* and spacing and is dropped, the third is kept; no cleaned record has a
\* link, and the url field gets the warning.
C29_Witness ==
    /\ refine_pc = "refined"
    /\ Len(refine_items) = 3
    /\ first_occurrences(signatures_of(normalized_input)) = {1, 3}
    /\ refine_items[1] # refine_items[2]
    /\ refined[1].stats.duplicates_removed = 1
    /\ refined[1].stats.records_after_cleaning = 2
    /\ Len(refine_fields) = 2
    /\ Len(refined[1].warnings) = 1
    /\ refined[1].warnings[1][1] = "url"

(***************************************************************************)
(* planner.py: IntentSuggestion.merge called on its own.                   *)
(***************************************************************************)
CallIdle ==
    /\ call_pc = "idle"
    /\ call_args = <<>>
    /\ call_result = <<>>

MergeUrlA == <<"https://", "a.com">>

MergeUrlB == <<"https://", "b.com", "/list">>

ScrollStep(count) == InteractionStep("scroll", None, count, 400, None, None)

ClickStep(selector, note) == InteractionStep("click", selector, 1, 0, None, note)

\* Base suggestions: with and without a seed, with lists that hold a repeated
\* entry, with two steps of the same key.
MergeBases ==
    {IntentSuggestion(seed, extras, names, cap, steps, notes) :
        seed \in {None, Some(MergeUrlA)},
        extras \in {<<>>, <<MergeUrlB>>, <<MergeUrlB, MergeUrlA, MergeUrlB>>},
        names \in {<<>>, <<"title", "price">>},
        cap \in {None, Some(3)},
        steps \in {<<>>, <<ScrollStep(5), ClickStep(Some("text=Load more"), None)>>,
                   <<ScrollStep(5), ScrollStep(1)>>},
        notes \in {<<>>, <<"Heuristic planner could not detect a URL.">>}}

\* Incoming suggestions: every field empty or absent, or set; a seed that is
\* the empty string; a cap of 0; steps with a key of the base and steps with
\* a new key, a selector that is None and one that is "".
MergeIncoming ==
    {IntentSuggestion(seed, extras, names, cap, steps, notes) :
        seed \in {None, Some(<<>>), Some(MergeUrlB)},
        extras \in {<<>>, <<MergeUrlA>>, <<MergeUrlA, MergeUrlB, MergeUrlA>>},
        names \in {<<>>, <<"price", "link", "price">>},
        cap \in {None, Some(0), Some(2)},
        steps \in {<<>>, <<ScrollStep(2)>>,
                   <<ClickStep(Some("text=Load more"), Some("again")), ClickStep(Some(""), None), ClickStep(None, Some("last"))>>,
                   <<InteractionStep("wait", None, 1, 1500, None, None), ScrollStep(2), ScrollStep(3)>>},
        notes \in {<<>>, <<"Intent derived from language model analysis.">>}}

MergeInit ==
    /\ call_pc = "start"
    /\ call_args \in {<<base, other>> : base \in MergeBases, other \in {None} \cup {Some(o) : o \in MergeIncoming}}
    /\ call_result = <<>>

\* base.merge(other)
MergeCall ==
    /\ call_pc = "start"
    /\ call_result' = <<merge(call_args[1], call_args[2])>>
    /\ call_pc' = "merged"
    /\ UNCHANGED call_args
    /\ UNCHANGED not_call_vars

MergeNext == MergeCall

\* result is the entries of base then of incoming, each once, in order of
\* first occurrence.
extended_list(result, base, incoming) ==
    LET all == base \o incoming
        first_at(v) == CHOOSE k \in 1..Len(all) : all[k] = v /\ \A j \in 1..(k - 1) : all[j] # v
    IN  /\ Range(result) = Range(all)
        /\ \A i, j \in 1..Len(result) : i < j => first_at(result[i]) < first_at(result[j])

key_of(step) == <<step.kind, IF step.selector = None THEN "" ELSE step.selector[1], IF step.value = None THEN "" ELSE step.value[1]>>

\* The last step of the list with the key.
last_with_key(steps, key) ==
    steps[CHOOSE k \in 1..Len(steps) : key_of(steps[k]) = key /\ \A j \in (k + 1)..Len(steps) : key_of(steps[j]) # key]

\* One step per key of base and incoming, keys in order of first occurrence
\* in base then incoming; the step of a key of incoming is the last incoming
\* step with it, the step of any other key the last base step with it.
merged_by_key(result, base, incoming) ==
    LET all == base \o incoming
        incoming_keys == {key_of(incoming[k]) : k \in 1..Len(incoming)}
    IN  /\ extended_list([i \in 1..Len(result) |-> key_of(result[i])], [i \in 1..Len(all) |-> key_of(all[i])], <<>>)
        /\ \A i \in 1..Len(result) :
              result[i] = IF key_of(result[i]) \in incoming_keys
                          THEN last_with_key(incoming, key_of(result[i]))
                          ELSE last_with_key(base, key_of(result[i]))

\* C24: merge is right-biased.  A missing suggestion returns the base.  A
\* non-empty incoming seed_url and an incoming max_pages that is not None
\* replace the base value; non-empty incoming extra_urls and field_names
\* extend the base list (base entries first, each entry once); non-empty
\* incoming interactions replace the base steps of the same (kind, selector,
\* value) key and add the others; notes are appended; an empty or absent
\* incoming field leaves the base field as it is.
C24_MergeRightBiased ==
    call_pc = "merged" =>
        LET base == call_args[1]
            result == call_result[1]
        IN  IF call_args[2] = None THEN result = base
            ELSE LET incoming == call_args[2][1]
                 IN  /\ result.seed_url = IF incoming.seed_url \in {None, Some(<<>>)} THEN base.seed_url ELSE incoming.seed_url
                     /\ result.max_pages = IF incoming.max_pages = None THEN base.max_pages ELSE incoming.max_pages
                     /\ IF incoming.extra_urls = <<>> THEN result.extra_urls = base.extra_urls
                        ELSE extended_list(result.extra_urls, base.extra_urls, incoming.extra_urls)
                     /\ IF incoming.field_names = <<>> THEN result.field_names = base.field_names
                        ELSE extended_list(result.field_names, base.field_names, incoming.field_names)
                     /\ IF incoming.interactions = <<>> THEN result.interactions = base.interactions
                        ELSE merged_by_key(result.interactions, base.interactions, incoming.interactions)
                     /\ result.notes = base.notes \o incoming.notes

\* C24 witness: every incoming field is set; the seed and the cap are
\* replaced, the lists extended, the click step of the base replaced in its
\* place and two steps added.
C24_Witness ==
    /\ call_pc = "merged"
    /\ call_args[2] # None
    /\ call_args[1].seed_url = Some(MergeUrlA)
    /\ call_result[1].seed_url = Some(MergeUrlB)
    /\ call_args[1].max_pages = Some(3)
    /\ call_result[1].max_pages = Some(0)
    /\ call_result[1].extra_urls = <<MergeUrlB, MergeUrlA>>
    /\ call_result[1].field_names = <<"title", "price", "link">>
    /\ call_result[1].interactions = <<ScrollStep(5), ClickStep(Some("text=Load more"), Some("again")), ClickStep(None, Some("last"))>>
    /\ Len(call_result[1].notes) = 2

(***************************************************************************)
(* planner.py: the field list of a plan, for a given library and given     *)
(* requested names.                                                        *)
(***************************************************************************)
\* Longest list of requested names.
MaxNames == 3

ResolveNames == {"title", "Title", "headline", "cost", "url", "link", "Link", "label", "zzz"}

\* A library without "description" and "url".
SmallLibrary ==
    <<LibraryEntry("title", default_field_library["title"]),
      LibraryEntry("price", default_field_library["price"])>>

\* A library in which "link" and "title" are also synonyms of another field.
OverlapLibrary ==
    <<LibraryEntry("link", FieldSpec("link", {"link", "href"}, "link", <<"href">>, FALSE)),
      LibraryEntry("url", default_field_library["url"]),
      LibraryEntry("label", FieldSpec("label", {"label", "title"}, "text", <<>>, FALSE)),
      LibraryEntry("title", default_field_library["title"])>>

\* A library whose keys are not the names of its fields.
AliasLibrary ==
    <<LibraryEntry("title", FieldSpec("heading", {"title"}, "text", <<>>, FALSE)),
      LibraryEntry("description", FieldSpec("heading", {"summary"}, "text", <<>>, TRUE)),
      LibraryEntry("url", default_field_library["url"])>>

ResolveLibraries == {DefaultLibrary, SmallLibrary, OverlapLibrary, AliasLibrary}

ResolveInit ==
    /\ call_pc = "start"
    /\ call_args \in {<<library, names>> : library \in ResolveLibraries, names \in SeqsUpTo(ResolveNames, MaxNames)}
    /\ call_result = <<>>

\* plan(): the fields of the plan.
ResolveCall ==
    /\ call_pc = "start"
    /\ call_result' = <<plan_fields(call_args[1], call_args[2])>>
    /\ call_pc' = "resolved"
    /\ UNCHANGED call_args
    /\ UNCHANGED not_call_vars

ResolveNext == ResolveCall

distinct_names(specs) == \A i, j \in 1..Len(specs) : specs[i].name = specs[j].name => i = j

resolved_names == [i \in 1..Len(call_result[1]) |-> call_result[1][i].name]

\* C25 as stated: for every library, the field list has no two fields of
\* the same name, and when no requested name is a key or a synonym of the
\* library it is the default set title, description, url.
C25_UniqueFieldsOrDefaultSet ==
    call_pc = "resolved" =>
        LET library == call_args[1]
            nothing_resolves ==
                \A k \in 1..Len(call_args[2]) :
                    /\ call_args[2][k] \notin library_keys(library)
                    /\ \A e \in 1..Len(library) : lower_chunk(call_args[2][k]) \notin library[e].spec.synonyms
        IN  /\ distinct_names(call_result[1])
            /\ nothing_resolves => resolved_names = <<"title", "description", "url">>

\* The fields of the library that answer to a requested name: the field
\* under that key, or else the fields that list the lower-cased name.
answering(library, name) ==
    IF name \in library_keys(library)
    THEN {library[e].spec : e \in {e \in 1..Len(library) : library[e].key = name}}
    ELSE {library[e].spec : e \in {e \in 1..Len(library) : lower_chunk(name) \in library[e].spec.synonyms}}

keys_are_names(library) == \A e \in 1..Len(library) : library[e].key = library[e].spec.name

\* With the built-in library a name answers to at most one field.
target(name) ==
    IF name \in Range(library_names) THEN <<name>>
    ELSE LET hits == SelectSeq(library_names, LAMBDA n : lower_chunk(name) \in default_field_library[n].synonyms)
         IN  IF hits = <<>> THEN <<>> ELSE <<hits[1]>>

RECURSIVE targets(_)
targets(names) == IF names = <<>> THEN <<>> ELSE target(names[1]) \o targets(Tail(names))

\* C25, as the code gives it.  When some requested name answers to a field
\* of the library, the list holds only fields that answer to a requested
\* name, no two of one name, with for every requested name at least one of
\* the fields that answer to it or one of the same name.  When none does,
\* the list is the fields the library holds under title, description, url,
\* in that order.  In a library whose keys are its fields' names no two
\* fields of the list have one name.  With the built-in library the list is
\* the fields the names answer to, each once, in order of first resolution,
\* and title, description, url when there is none.
C25_FieldsResolvedOrDefaultsHeld ==
    call_pc = "resolved" =>
        LET library == call_args[1]
            names == call_args[2]
            fields == call_result[1]
            resolving == {k \in 1..Len(names) : answering(library, names[k]) # {}}
            held == SelectSeq(<<"title", "description", "url">>, LAMBDA n : n \in library_keys(library))
        IN  /\ resolving # {} =>
                  /\ distinct_names(fields)
                  /\ \A i \in 1..Len(fields) : \E k \in resolving :
                        \/ fields[i] \in answering(library, names[k])
                        \/ fields[i] \in {library[e].spec : e \in {e \in 1..Len(library) : lower_chunk(names[k]) \in library[e].spec.synonyms}}
                  /\ \A k \in resolving : \E i \in 1..Len(fields) :
                        \E f \in answering(library, names[k]) : fields[i].name = f.name
            /\ resolving = {} => fields = [i \in 1..Len(held) |-> library_item(library, held[i])]
            /\ keys_are_names(library) => distinct_names(fields)
            /\ library = DefaultLibrary =>
                  LET wanted == dedup_fromkeys(targets(names))
                  IN  resolved_names = IF wanted = <<>> THEN <<"title", "description", "url">> ELSE wanted

\* C25 witness: with the built-in library, "headline", "title" and "Link"
\* give title and url.
C25_Witness ==
    /\ call_pc = "resolved"
    /\ call_args = <<DefaultLibrary, <<"headline", "title", "Link">> >>
    /\ resolved_names = <<"title", "url">>

\* No requested name resolves in a library without description and url:
\* the field list is title alone.
C25_DefaultsMissingExample ==
    /\ call_pc = "resolved"
    /\ call_args = <<SmallLibrary, <<"zzz">> >>
    /\ resolved_names = <<"title">>

\* "link" twice, the second time in another case: the second adds the url
\* field, which lists "link" as a synonym.
C25_SecondFieldExample ==
    /\ call_pc = "resolved"
    /\ call_args = <<OverlapLibrary, <<"link", "Link">> >>
    /\ resolved_names = <<"link", "url">>

(***************************************************************************)
(* analyzer.py: extract_items on documents with several repeating groups.  *)
(***************************************************************************)
\* Most elements of one signature in a document.
MaxGroup == 3

\* The shapes of the elements of the documents: tag, class list, role.
\* Shapes 7 and 8 differ by the order of their classes only; shape 9 has no
\* signature; shape 10 is not a candidate tag.
AnalyzeShapes ==
    <<[tag |-> "li", classes |-> <<>>, role |-> ""],
      [tag |-> "div", classes |-> <<"card">>, role |-> ""],
      [tag |-> "div", classes |-> <<>>, role |-> "listitem"],
      [tag |-> "article", classes |-> <<>>, role |-> ""],
      [tag |-> "tr", classes |-> <<>>, role |-> ""],
      [tag |-> "section", classes |-> <<"card">>, role |-> ""],
      [tag |-> "div", classes |-> <<"a", "b">>, role |-> ""],
      [tag |-> "div", classes |-> <<"b", "a">>, role |-> ""],
      [tag |-> "div", classes |-> <<>>, role |-> ""],
      [tag |-> "ul", classes |-> <<>>, role |-> "list"]>>

shape_label(n) == IF n <= 9 THEN str_of(n) ELSE "x"

\* What extraction finds in the k-th element of shape n when the elements
\* of that shape have data: a title, nothing, a title and a link, a title.
found_in(n, k) ==
    CASE k = 1 -> [title |-> <<shape_label(n), "-", "1">>, url |-> <<>>]
      [] k = 2 -> [title |-> <<>>, url |-> <<>>]
      [] k = 3 -> [title |-> <<shape_label(n), "-", "3">>, url |-> <<"/", shape_label(n)>>]
      [] OTHER -> [title |-> <<shape_label(n), "-", str_of(k)>>]

nothing_found == [title |-> <<>>]

\* The elements of shape n: `count` of them, with data or without.
shape_elements(n, count, with_data) ==
    [k \in 1..count |->
        Element(AnalyzeShapes[n].tag, AnalyzeShapes[n].classes, AnalyzeShapes[n].role,
                IF with_data THEN found_in(n, k) ELSE nothing_found)]

RECURSIVE concat_all(_)
concat_all(lists) == IF lists = <<>> THEN <<>> ELSE lists[1] \o concat_all(Tail(lists))

AnalyzeFields == <<default_field_library["title"], default_field_library["url"]>>

\* Documents: 1..MaxGroup elements of each of the shapes 1 to 4, two of
\* shape 5 and of shape 6, shapes 7 and 8 once each or not at all, shapes 9
\* and 10 twice each and with data; at most two of the shapes 1 to 7 have
\* data; the whole document has a title or nothing.
AnalyzeInit ==
    /\ call_pc = "start"
    /\ \E counts \in [1..4 -> 1..MaxGroup], data \in {d \in SUBSET (1..7) : Cardinality(d) <= 2},
          mixed \in BOOLEAN, whole \in {nothing_found, [title |-> <<"W">>, url |-> <<>>]} :
          call_args =
            <<Document(
                concat_all([n \in 1..6 |-> shape_elements(n, IF n <= 4 THEN counts[n] ELSE 2, n \in data)])
                    \o (IF mixed THEN shape_elements(7, 1, 7 \in data) \o shape_elements(8, 1, 7 \in data) ELSE <<>>)
                    \o shape_elements(9, 2, TRUE) \o shape_elements(10, 2, TRUE),
                whole),
              AnalyzeFields>>
    /\ call_result = <<>>

\* extract_items(html, plan, base_url=...)
AnalyzeCall ==
    /\ call_pc = "start"
    /\ call_result' = <<extract_items_parsed(call_args[1], call_args[2])>>
    /\ call_pc' = "extracted"
    /\ UNCHANGED call_args
    /\ UNCHANGED not_call_vars

AnalyzeNext == AnalyzeCall

\* Two elements have the same signature: tag, set of classes and role agree.
same_signature(e, f) == e.tag = f.tag /\ Range(e.classes) = Range(f.classes) /\ e.role = f.role

has_signature(e) ==
    /\ e.tag \in {"article", "li", "tr", "section", "div"}
    /\ (e.classes # <<>> \/ e.role # "" \/ e.tag \in {"article", "li", "tr"})

\* The members of the signature group of element i, as indices of the
\* document's elements.
members(elements, i) == {j \in 1..Len(elements) : has_signature(elements[j]) /\ same_signature(elements[i], elements[j])}

\* The groups with at least 2 members, each named by its first member.
candidates(elements) ==
    {i \in 1..Len(elements) :
        /\ has_signature(elements[i])
        /\ Cardinality(members(elements, i)) >= 2
        /\ \A j \in members(elements, i) : i <= j}

group_sizes(elements) == [i \in 1..Len(elements) |-> Cardinality(members(elements, i))]

\* Group g comes before group h: it is larger, or as large and earlier.
before_group(sizes, g, h) == sizes[g] > sizes[h] \/ (sizes[g] = sizes[h] /\ g < h)

\* The at most 5 first candidates.
considered(elements) ==
    LET sizes == group_sizes(elements)
        all == candidates(elements)
    IN  {g \in all : Cardinality({h \in all : before_group(sizes, h, g)}) < 5}

\* The record of an element: the planned fields with a non-empty value.
record_of(found) == [n \in {m \in {"title", "url"} \cap DOMAIN found : found[m] # <<>>} |-> found[n]]

yields(elements, g) == \E j \in members(elements, g) : DOMAIN record_of(elements[j].found) # {}

\* The non-empty records of group g in document order.
records_of_group(elements, g) ==
    LET in_group == SelectSeq([j \in 1..Len(elements) |-> IF j \in members(elements, g) THEN record_of(elements[j].found) ELSE <<>>],
                              LAMBDA record : DOMAIN record # {})
    IN  in_group

\* C26: extract_items considers the signature groups of at least 2 members,
\* the 5 largest at most, largest first, and returns the non-empty records
\* of the first of them that has one, of that group alone and without a
\* warning; when there is no candidate group, or none of those considered
\* has a record, it returns the whole-document record if that is not empty,
\* and nothing otherwise, with one warning that names the fallback; no
\* returned record is empty and no value in a record is empty.
C26_FirstYieldingGroupOrFallback ==
    call_pc = "extracted" =>
        LET elements == call_args[1].elements
            result == call_result[1]
            yielding == {g \in considered(elements) : yields(elements, g)}
            whole == record_of(call_args[1].whole)
        IN  /\ ~result.raised
            /\ \A i \in 1..Len(result.items) :
                  /\ DOMAIN result.items[i] # {}
                  /\ \A n \in DOMAIN result.items[i] : result.items[i][n] # <<>>
            /\ IF yielding # {}
               THEN LET sizes == group_sizes(elements)
                        first == CHOOSE g \in yielding : \A h \in yielding : h = g \/ before_group(sizes, g, h)
                    IN  /\ result.items = records_of_group(elements, first)
                        /\ result.warnings = <<>>
               ELSE /\ result.items = IF DOMAIN whole # {} THEN <<whole>> ELSE <<>>
                    /\ result.warnings =
                          IF candidates(elements) = {}
                          THEN <<"No repeating layout detected; falling back to whole-page extraction.">>
                          ELSE <<"Structured clusters did not yield data; using single-shot extraction.">>

\* C26 witness: seven candidate groups, two of them with data; the records
\* returned are those of the larger one, which comes later in the
\* document, and the empty record of its second element is left out.
C26_Witness ==
    /\ call_pc = "extracted"
    /\ Cardinality(candidates(call_args[1].elements)) = 7
    /\ yields(call_args[1].elements, 1)
    /\ Cardinality(members(call_args[1].elements, 1)) = 2
    /\ Len(call_result[1].items) = 2
    /\ call_result[1].items[1] = [title |-> <<"2", "-", "1">>]
    /\ call_result[1].items[2] = [title |-> <<"2", "-", "3">>, url |-> <<"/", "2">>]

\* C26 witness of the fallback: six groups are larger than the only group
\* with data, which is not considered, and the whole-document record is
\* returned with the warning.
C26_WitnessFallback ==
    /\ call_pc = "extracted"
    /\ \E g \in candidates(call_args[1].elements) : yields(call_args[1].elements, g)
    /\ call_result[1].items = <<[title |-> <<"W">>]>>
    /\ call_result[1].warnings = <<"Structured clusters did not yield data; using single-shot extraction.">>

(***************************************************************************)
(* analyzer.py: the scored extractors _extract_text, _extract_numeric,     *)
(* _extract_link and _extract_image.  A node is the sequence of elements   *)
(* the extractor iterates over, in document order; an element carries its  *)
(* text, the first number in its text, its attributes and the score        *)
(* _score_element gives it for the field, in hundredths.                  *)
(***************************************************************************)
\* Most elements of a node.
MaxNodes == 3

ScoredElement(text, number, attrs, score) == [text |-> text, number |-> number, attrs |-> attrs, score |-> score]

\* element.get(attr): None when the element has no such attribute.
attr_get(element, attr) ==
    LET hits == SelectSeq(element.attrs, LAMBDA pair : pair[1] = attr)
    IN  IF hits = <<>> THEN None ELSE Some(hits[1][2])

ExtractBase == <<"https://", "a.com", "/list">>

\* urljoin(base_url, ref) for a reference that is a path: scheme and host
\* of the base, then the path.
urljoin(base_url, ref) == SubSeq(base_url, 1, 2) \o ref

\* A replacement rule that asks for a strictly higher score.
strictly_higher(score, best_score) == score > best_score

\* `score >= best_score` of the numeric, link and image extractors.
not_lower(score, best_score) == score >= best_score

\* Scores are in hundredths: 0.6, 0.45, 0.4, 0.3.
RECURSIVE text_loop(_, _, _)
text_loop(elements, best_score, best_value) ==
    IF elements = <<>> THEN best_value
    ELSE LET e == elements[1]
         IN  IF e.text # <<>> /\ e.score > 60 /\ (e.score > best_score \/ best_value = None)
             THEN text_loop(Tail(elements), e.score, Some(e.text))
             ELSE text_loop(Tail(elements), best_score, best_value)

\* " ".join(text_content.split()[:30]) on a text of fewer than 30 words.
_extract_text(elements, field, node_text) ==
    LET best_value == text_loop(elements, 0, None)
    IN  IF best_value # None THEN best_value
        ELSE IF field.allow_partial /\ node_text # <<>> THEN Some(node_text)
        ELSE None

RECURSIVE numeric_loop(_, _, _)
numeric_loop(elements, best_score, best_value) ==
    IF elements = <<>> THEN best_value
    ELSE LET e == elements[1]
         IN  IF e.text # <<>> /\ e.number # None /\ e.score > 45 /\ not_lower(e.score, best_score)
             THEN numeric_loop(Tail(elements), e.score, e.number)
             ELSE numeric_loop(Tail(elements), best_score, best_value)

\* The fallback searches the text of the whole node: the first number of
\* the first element that has one.
_extract_numeric(elements, field) ==
    LET best_value == numeric_loop(elements, 0, None)
        with_number == SelectSeq(elements, LAMBDA e : e.number # None)
    IN  IF best_value # None THEN best_value
        ELSE IF with_number # <<>> THEN with_number[1].number
        ELSE None

RECURSIVE link_loop(_, _, _)
link_loop(elements, best_score, best_value) ==
    IF elements = <<>> THEN best_value
    ELSE LET e == elements[1]
             href == attr_get(e, "href")
         IN  IF href \notin {None, Some(<<>>)} /\ e.score > 40 /\ not_lower(e.score, best_score)
             THEN link_loop(Tail(elements), e.score, Some(urljoin(ExtractBase, href[1])))
             ELSE link_loop(Tail(elements), best_score, best_value)

_extract_link(elements, field) == link_loop(elements, 0, None)

\* field.attribute_preferences or ["src", "data-src", "data-original"]
candidate_attrs(field) ==
    IF field.attribute_preferences # <<>> THEN field.attribute_preferences
    ELSE <<"src", "data-src", "data-original">>

\* `for attr in candidate_attrs` on one element: every attribute that has a
\* value is scored and can replace the best value.
RECURSIVE attr_loop(_, _, _)
attr_loop(e, attrs, best) ==
    IF attrs = <<>> THEN best
    ELSE LET value == attr_get(e, attrs[1])
         IN  IF value \notin {None, Some(<<>>)} /\ e.score > 30 /\ not_lower(e.score, best.score)
             THEN attr_loop(e, Tail(attrs), [score |-> e.score, value |-> Some(urljoin(ExtractBase, value[1]))])
             ELSE attr_loop(e, Tail(attrs), best)

RECURSIVE image_loop(_, _, _)
image_loop(elements, attrs, best) ==
    IF elements = <<>> THEN best.value
    ELSE image_loop(Tail(elements), attrs, attr_loop(elements[1], attrs, best))

_extract_image(elements, field) == image_loop(elements, candidate_attrs(field), [score |-> 0, value |-> None])

\* The extractor _extract_field picks for the field's value type.
extractor(elements, field, node_text) ==
    CASE field.value_type = "link" -> _extract_link(elements, field)
      [] field.value_type = "image" -> _extract_image(elements, field)
      [] field.value_type = "numeric" -> _extract_numeric(elements, field)
      [] OTHER -> _extract_text(elements, field, node_text)

\* Elements with a text: empty or not, scored at and above the threshold.
TextElements ==
    {ScoredElement(text, None, <<>>, score) : text \in {<<>>, <<"A">>, <<"B">>, <<"C">>}, score \in {60, 70, 90}}

NumericElements ==
    {ScoredElement(<<"costs", number[1]>>, number, <<>>, score) :
        number \in {Some(<<"10">>), Some(<<"20">>), Some(<<"30">>)}, score \in {45, 50, 70}}
    \cup {ScoredElement(<<"free">>, None, <<>>, 70), ScoredElement(<<>>, None, <<>>, 70)}

\* <a> elements: without href, with an empty href, with a path.
LinkElements ==
    {ScoredElement(<<"more">>, None, <<<<"href", href>>>>, score) :
        href \in {<<>>, <<"/x">>, <<"/y">>, <<"/z">>}, score \in {40, 50, 70}}
    \cup {ScoredElement(<<"more">>, None, <<>>, 70)}

\* <img> elements: with none, one or two of the preferred attributes, in
\* any order in the tag.
ImageAttrs(v) ==
    {<<>>,
     <<<<"src", <<"/", v, ".png">>>>>>,
     <<<<"data-src", <<"/", v, "-lazy.png">>>>, <<"src", <<"/", v, ".png">>>>>>,
     <<<<"data-src", <<"/", v, "-lazy.png">>>>, <<"data-lazy", <<"/", v, "-late.png">>>>>>}

ImageElements ==
    {ScoredElement(<<>>, None, attrs, score) :
        attrs \in ImageAttrs("1") \cup {<<<<"src", <<"/", "2", ".png">>>>>>}, score \in {30, 50, 70}}

\* An image field without attribute preferences.
PlainImageField == FieldSpec("photo", {"photo"}, "image", <<>>, FALSE)

\* A call on a text field, on a text field that allows a partial value, on a
\* numeric field, on a link field, or on one of two image fields.
ExtractInit ==
    /\ call_pc = "start"
    /\ \/ \E elements \in SeqsUpTo(TextElements, MaxNodes) :
             call_args = <<default_field_library["title"], elements, <<>>>>
       \/ \E elements \in SeqsUpTo(TextElements, 1) :
             call_args = <<default_field_library["description"], elements, <<"W">>>>
       \/ \E elements \in SeqsUpTo(NumericElements, MaxNodes) :
             call_args = <<default_field_library["price"], elements, <<>>>>
       \/ \E elements \in SeqsUpTo(LinkElements, MaxNodes) :
             call_args = <<default_field_library["url"], elements, <<>>>>
       \/ \E field \in {default_field_library["image"], PlainImageField}, elements \in SeqsUpTo(ImageElements, MaxNodes) :
             call_args = <<field, elements, <<>>>>
    /\ call_result = <<>>

\* extractor(node, field, base_url) in _extract_field
ExtractCall ==
    /\ call_pc = "start"
    /\ call_result' = <<extractor(call_args[2], call_args[1], call_args[3])>>
    /\ call_pc' = "scored"
    /\ UNCHANGED call_args
    /\ UNCHANGED not_call_vars

ExtractNext == ExtractCall

\* The values of the preferred attributes the element has, in the order of
\* the preference list.
preferred_values(element, field) ==
    LET prefs == IF field.attribute_preferences # <<>> THEN field.attribute_preferences
                 ELSE <<"src", "data-src", "data-original">>
        values == [k \in 1..Len(prefs) |-> attr_get(element, prefs[k])]
        present == SelectSeq(values, LAMBDA value : value \notin {None, Some(<<>>)})
    IN  [k \in 1..Len(present) |-> present[k][1]]

\* The elements the extractor of the field's type scores above its
\* threshold: 0.6 for text, 0.45 for numbers, 0.4 for links, 0.3 for images.
above_threshold(elements, field) ==
    {i \in 1..Len(elements) :
        CASE field.value_type = "link" -> attr_get(elements[i], "href") \notin {None, Some(<<>>)} /\ elements[i].score > 40
          [] field.value_type = "image" -> preferred_values(elements[i], field) # <<>> /\ elements[i].score > 30
          [] field.value_type = "numeric" -> elements[i].text # <<>> /\ elements[i].number # None /\ elements[i].score > 45
          [] OTHER -> elements[i].text # <<>> /\ elements[i].score > 60}

\* Those of them with the highest score.
top_scored(elements, field) ==
    {i \in above_threshold(elements, field) : \A j \in above_threshold(elements, field) : elements[j].score <= elements[i].score}

first_of(indices) == CHOOSE i \in indices : \A j \in indices : i <= j

last_of(indices) == CHOOSE i \in indices : \A j \in indices : j <= i

\* C27: when some element scores above the threshold of the field's type,
\* the text extractor returns the text of the first element with the
\* highest score, and the numeric, link and image extractors return the
\* number, the joined href and a joined preferred attribute of the last
\* element with the highest score.
C27_FirstForTextLastForOthers ==
    call_pc = "scored" =>
        LET field == call_args[1]
            elements == call_args[2]
            top == top_scored(elements, field)
        IN  top # {} =>
              CASE field.value_type = "link" ->
                     call_result[1] = Some(<<"https://", "a.com">> \o attr_get(elements[last_of(top)], "href")[1])
                [] field.value_type = "image" ->
                     /\ call_result[1] # None
                     /\ \E k \in 1..Len(preferred_values(elements[last_of(top)], field)) :
                           call_result[1][1] = <<"https://", "a.com">> \o preferred_values(elements[last_of(top)], field)[k]
                [] field.value_type = "numeric" -> call_result[1] = elements[last_of(top)].number
                [] OTHER -> call_result[1] = Some(elements[first_of(top)].text)

\* C27 witness: three numbers, the last two with the highest score; the
\* last one is returned.
C27_Witness ==
    /\ call_pc = "scored"
    /\ call_args[1].value_type = "numeric"
    /\ Len(call_args[2]) = 3
    /\ call_args[2][1].score = 50
    /\ call_args[2][2] = ScoredElement(<<"costs", <<"10">>>>, Some(<<"10">>), <<>>, 70)
    /\ call_args[2][3] = ScoredElement(<<"costs", <<"20">>>>, Some(<<"20">>), <<>>, 70)
    /\ call_result[1] = Some(<<"20">>)

\* Two texts with the highest score; the first one is returned.
C27_WitnessText ==
    /\ call_pc = "scored"
    /\ call_args[1].name = "title"
    /\ call_args[2] = <<ScoredElement(<<"A">>, None, <<>>, 90), ScoredElement(<<"B">>, None, <<>>, 90)>>
    /\ call_result[1] = Some(<<"A">>)

\* C28: the image extractor returns, for the best-scoring image, the value
\* of the earliest attribute of the preference list that the image has.
C28_MostPreferredAttributeReturned ==
    (call_pc = "scored" /\ call_args[1].value_type = "image") =>
        LET top == top_scored(call_args[2], call_args[1])
        IN  top # {} =>
              call_result[1] = Some(<<"https://", "a.com">> \o preferred_values(call_args[2][last_of(top)], call_args[1])[1])

\* What the loop over the preference list gives: the value of the last
\* attribute of the list that the best-scoring image has.
C28_LeastPreferredAttributeReturned ==
    (call_pc = "scored" /\ call_args[1].value_type = "image") =>
        LET top == top_scored(call_args[2], call_args[1])
        IN  top # {} =>
              LET values == preferred_values(call_args[2][last_of(top)], call_args[1])
              IN  call_result[1] = Some(<<"https://", "a.com">> \o values[Len(values)])

\* An image with src and data-src: the value of data-src is returned,
\* although src comes first in the preference list.
C28_Example ==
    /\ call_pc = "scored"
    /\ call_args[1] = default_field_library["image"]
    /\ call_args[2] = <<ScoredElement(<<>>, None, <<<<"data-src", <<"/", "1", "-lazy.png">>>>, <<"src", <<"/", "1", ".png">>>>>>, 50)>>
    /\ call_result[1] = Some(<<"https://", "a.com", "/", "1", "-lazy.png">>)

(***************************************************************************)
(* fetcher.py: BrowserSession.open and _perform_interactions, step by      *)
(* step, for one URL.                                                      *)
(***************************************************************************)
\* Longest interactions list.
MaxSteps == 3

OpenUrl == "u1"

\* Steps of every branch of _perform_interactions: with and without the
\* selector or value the branch asks for, and of a kind it does not know.
OpenSteps ==
    {InteractionStep("scroll", None, 0, 0, None, None),
     InteractionStep("click", Some("text=Load more"), 1, 0, None, None),
     InteractionStep("click", None, 1, 0, None, None),
     InteractionStep("type", Some("#q"), 1, 0, None, None),
     InteractionStep("wait_for_selector", Some(".item"), 1, 0, None, None),
     InteractionStep("hover", Some(".menu"), 1, 0, None, None)}

\* What the if/elif chain calls for the step; "none" for the else branch.
step_call(step) ==
    IF step.kind = "scroll" THEN "scroll"
    ELSE IF step.kind = "wait_for_selector" /\ step.selector \notin {None, Some("")} THEN "wait_for_selector"
    ELSE IF step.kind = "wait" THEN "sleep"
    ELSE IF step.kind = "click" /\ step.selector \notin {None, Some("")} THEN "click"
    ELSE IF step.kind = "type" /\ step.selector \notin {None, Some("")} /\ step.value # None THEN "fill"
    ELSE "none"

\* An entry of the history: the operation, the index of the step (0 outside
\* the loop), what was called on the page and how the call ended.
PageCall(op, index, call, outcome) == [op |-> op, index |-> index, call |-> call, outcome |-> outcome]

\* How a call on the page ends.
CallOutcomes == {"ok", "timeout", "error"}

\* An exception of a step that leaves _perform_interactions.
step_exception_propagates(outcome) == "except"

\* `except Exception` inside the loop: the warning is logged and the loop
\* goes on with the next step.
on_step_exception(outcome) == "steps"

\* The except clauses of open: the PageContent for a timeout and for any
\* other exception.
open_failure(outcome) ==
    IF outcome = "timeout"
    THEN PageContent(OpenUrl, OpenUrl, None, "", Some("timeout: Timeout 20000ms exceeded."))
    ELSE PageContent(OpenUrl, OpenUrl, None, "", Some("boom"))

OpenInit ==
    /\ open_pc = "start"
    /\ open_interactions \in SeqsUpTo(OpenSteps, MaxSteps)
    /\ open_i = 0
    /\ open_trace = <<>>
    /\ open_page = "none"
    /\ open_response = None
    /\ open_pending = None
    /\ open_result = None

OpenIdle ==
    /\ open_pc = "idle"
    /\ open_interactions = <<>>
    /\ open_i = 0
    /\ open_trace = <<>>
    /\ open_page = "none"
    /\ open_response = None
    /\ open_pending = None
    /\ open_result = None

\* `page = await self._context.new_page()`, outside the try statement.
OpenNewPage ==
    /\ open_pc = "start"
    /\ \/ /\ open_page' = "open"
          /\ open_trace' = Append(open_trace, PageCall("new_page", 0, "new_page", "ok"))
          /\ open_pc' = "goto"
          /\ UNCHANGED open_result
       \/ /\ open_result' = Some(Raised("new_page failed"))
          /\ open_pc' = "done"
          /\ UNCHANGED <<open_page, open_trace>>
    /\ UNCHANGED <<open_interactions, open_i, open_response, open_pending>>
    /\ UNCHANGED not_open_vars

\* `response = await page.goto(...)`
OpenGoto ==
    /\ open_pc = "goto"
    /\ \E outcome \in CallOutcomes, status \in {None, Some(200)} :
          /\ open_trace' = Append(open_trace, PageCall("goto", 0, "goto", outcome))
          /\ IF outcome = "ok"
             THEN /\ open_response' = status
                  /\ open_i' = 1
                  /\ open_pc' = "steps"
                  /\ UNCHANGED open_pending
             ELSE /\ open_pending' = Some(open_failure(outcome))
                  /\ open_pc' = "close"
                  /\ UNCHANGED <<open_response, open_i>>
    /\ UNCHANGED <<open_interactions, open_page, open_result>>
    /\ UNCHANGED not_open_vars

\* One iteration of `for step in interactions`.
OpenStep ==
    /\ open_pc = "steps"
    /\ open_i <= Len(open_interactions)
    /\ LET call == step_call(open_interactions[open_i])
       IN  IF call = "none"
           THEN /\ open_trace' = Append(open_trace, PageCall("step", open_i, call, "ok"))
                /\ open_i' = open_i + 1
                /\ UNCHANGED <<open_pc, open_pending>>
           ELSE \E outcome \in CallOutcomes :
                   /\ open_trace' = Append(open_trace, PageCall("step", open_i, call, outcome))
                   /\ IF outcome = "ok"
                      THEN /\ open_i' = open_i + 1
                           /\ UNCHANGED <<open_pc, open_pending>>
                      ELSE IF on_step_exception(outcome) = "steps"
                      THEN /\ open_i' = open_i + 1
                           /\ UNCHANGED <<open_pc, open_pending>>
                      ELSE /\ open_pending' = Some(open_failure(outcome))
                           /\ open_pc' = "close"
                           /\ UNCHANGED open_i
    /\ UNCHANGED <<open_interactions, open_page, open_response, open_result>>
    /\ UNCHANGED not_open_vars

\* After the loop: `html = await page.content()`, page.url and the return
\* statement of the try block.
OpenContent ==
    /\ open_pc = "steps"
    /\ open_i > Len(open_interactions)
    /\ \E outcome \in CallOutcomes, final_url \in {OpenUrl, "u1/moved"} :
          /\ open_trace' = Append(open_trace, PageCall("content", 0, "content", outcome))
          /\ open_pending' = Some(IF outcome = "ok"
                               THEN PageContent(OpenUrl, final_url, open_response, "<html>", None)
                               ELSE open_failure(outcome))
    /\ open_pc' = "close"
    /\ UNCHANGED <<open_interactions, open_i, open_page, open_response, open_result>>
    /\ UNCHANGED not_open_vars

\* `finally: await page.close()`, then the pending return, or the exception
\* of close.
OpenClose ==
    /\ open_pc = "close"
    /\ \/ /\ open_page' = "closed"
          /\ open_trace' = Append(open_trace, PageCall("close", 0, "close", "ok"))
          /\ open_result' = Some(Returned(open_pending[1]))
       \/ /\ open_page' = "close_raised"
          /\ open_trace' = Append(open_trace, PageCall("close", 0, "close", "error"))
          /\ open_result' = Some(Raised("Target closed"))
    /\ open_pc' = "done"
    /\ UNCHANGED <<open_interactions, open_i, open_response, open_pending>>
    /\ UNCHANGED not_open_vars

OpenNext == OpenNewPage \/ OpenGoto \/ OpenStep \/ OpenContent \/ OpenClose

\* The try block of open is over: the finally clause runs or has run.
try_block_left == open_pc \in {"close", "done"} /\ Len(open_trace) >= 2

navigation_succeeded == Len(open_trace) >= 2 /\ open_trace[2].outcome = "ok"

\* Entry n + 3 of the history is the capture of the HTML, entries 3..n + 2
\* are the steps 1..n of the plan, one entry each, in plan order.
steps_then_content ==
    LET n == Len(open_interactions)
    IN  /\ Len(open_trace) >= n + 3
        /\ open_trace[1].op = "new_page"
        /\ open_trace[2].op = "goto"
        /\ \A i \in 1..n : open_trace[i + 2].op = "step" /\ open_trace[i + 2].index = i
        /\ \A i \in 1..n : open_interactions[i].kind = "hover" => open_trace[i + 2].call = "none"
        /\ open_trace[n + 3].op = "content"
        /\ \A k \in 1..Len(open_trace) : k > n + 3 => open_trace[k].op = "close"

some_step_failed == \E k \in 1..Len(open_trace) : open_trace[k].op = "step" /\ open_trace[k].outcome # "ok"

content_and_close_succeeded ==
    /\ open_pc = "done"
    /\ \E k \in 1..Len(open_trace) : open_trace[k].op = "content" /\ open_trace[k].outcome = "ok"
    /\ open_trace[Len(open_trace)] = PageCall("close", 0, "close", "ok")

\* C21: once navigation succeeded, every step of the interactions list is
\* handled once, in plan order, after goto and before the HTML is captured,
\* whichever steps fail or are of an unknown kind; and when the capture and
\* the closing of the page succeed, open returns the page with the captured
\* HTML and no error.
C21_StepFailuresIsolated ==
    /\ (try_block_left /\ navigation_succeeded) => steps_then_content
    /\ content_and_close_succeeded =>
          /\ open_result # None
          /\ open_result[1].tag = "page"
          /\ open_result[1].val.html = "<html>"
          /\ open_result[1].val.error = None

\* A first step that fails, a step of an unknown kind and a later step that
\* is attempted, and the page comes back with its HTML.
C21_Witness ==
    /\ content_and_close_succeeded
    /\ Len(open_interactions) = 3
    /\ open_trace[3].outcome = "error"
    /\ \E i \in 2..3 : open_interactions[i].kind = "hover"
    /\ open_trace[5].call = "click"
    /\ open_result[1].val.error = None

(***************************************************************************)
(* Specifications: one per component; the other components stay idle.      *)
(***************************************************************************)
FetchIdle ==
    /\ urls = <<>> /\ entry = "collector" /\ playwright_ok = TRUE /\ pc = "idle"
    /\ urls_list = <<>> /\ warnings = <<>> /\ session = NoSession
    /\ session_failure = None /\ semaphore = 0 /\ tasks = <<>> /\ results = <<>>
    /\ completed = <<>> /\ loop_i = 0 /\ pages = <<>> /\ fallback_urls = <<>>
    /\ metadata = None /\ http_urls = <<>> /\ http_env = <<>>
    /\ http_completed = <<>> /\ http_calls = <<>>

InitFetch == FetchInit /\ RefineIdle /\ PlanIdle /\ RunIdle /\ ExpandIdle /\ OpenIdle /\ CallIdle

SpecFetch == InitFetch /\ [][FetchNext]_vars

\* The event loop runs a coroutine that can go on, and every awaited page
\* operation and HTTP request ends.
LiveFetch == InitFetch /\ [][FetchNext]_vars /\ WF_vars(FetchNext)

InitRefine == RefineInit /\ FetchIdle /\ PlanIdle /\ RunIdle /\ ExpandIdle /\ OpenIdle /\ CallIdle

SpecRefine == InitRefine /\ [][RefineNext]_vars

InitPlan == PlanInit /\ FetchIdle /\ RefineIdle /\ RunIdle /\ ExpandIdle /\ OpenIdle /\ CallIdle

SpecPlan == InitPlan /\ [][PlanNext]_vars

InitEngine == RunInit /\ FetchIdle /\ RefineIdle /\ PlanIdle /\ ExpandIdle /\ OpenIdle /\ CallIdle

SpecEngine == InitEngine /\ [][RunNext]_vars

InitExpand == ExpandInit /\ FetchIdle /\ RefineIdle /\ PlanIdle /\ RunIdle /\ OpenIdle /\ CallIdle

SpecExpand == InitExpand /\ [][ExpandNext]_vars

InitOpen == OpenInit /\ FetchIdle /\ RefineIdle /\ PlanIdle /\ RunIdle /\ ExpandIdle /\ CallIdle

SpecOpen == InitOpen /\ [][OpenNext]_vars

InitMerge == MergeInit /\ FetchIdle /\ RefineIdle /\ PlanIdle /\ RunIdle /\ ExpandIdle /\ OpenIdle

SpecMerge == InitMerge /\ [][MergeNext]_vars

InitResolve == ResolveInit /\ FetchIdle /\ RefineIdle /\ PlanIdle /\ RunIdle /\ ExpandIdle /\ OpenIdle

SpecResolve == InitResolve /\ [][ResolveNext]_vars

InitAnalyze == AnalyzeInit /\ FetchIdle /\ RefineIdle /\ PlanIdle /\ RunIdle /\ ExpandIdle /\ OpenIdle

SpecAnalyze == InitAnalyze /\ [][AnalyzeNext]_vars

InitExtract == ExtractInit /\ FetchIdle /\ RefineIdle /\ PlanIdle /\ RunIdle /\ ExpandIdle /\ OpenIdle

SpecExtract == InitExtract /\ [][ExtractNext]_vars

====
